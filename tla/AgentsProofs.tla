---------------------------- MODULE AgentsProofs ----------------------------
(***************************************************************************)
(* Proofs about Agents, for any number of runs, Provider Session ids,       *)
(* bindings and lines, and any size of the pipes, the budget and the event  *)
(* channel.                                                                 *)
(*                                                                          *)
(* The inductive invariant has two halves.  Heard and Reaped follow a line  *)
(* from the pipe to the client: until the client judges, the last line a    *)
(* pump has read is the last one it received, or is still queued, or is     *)
(* past the budget and will be reported as an overflow.  Evidence follows a *)
(* Session from the Runtime's memory to its row: what a Decision will       *)
(* record is on disk when the run returns, and a row that ended is ended in *)
(* memory too, so no run is resumed over it.                                *)
(***************************************************************************)
EXTENDS Agents, RowLemmas, SequenceTheorems, TLAPS

Marks == {"started", "overflow", "eof"}

Events == [stream : Streams, frame : Frames \union Marks]

Rows == [st : {"none", "STARTING", "ACTIVE"} \union Ended,
         pid : ProviderIds \union {"none"}, prov : Nat, sup : 0 .. MaxRuns]

Clients == [op : {"none", "start", "bootstrap", "resume", "verify"},
            at : {"idle", "drain", "lost", "record"}, sess : 0 .. MaxRuns,
            est : ProviderIds \union {"none"}, started : BOOLEAN,
            term : Terminals \union {"none"}]

SupTypes ==
    /\ child \in {"none", "alive"} \union Exits /\ orphan \in BOOLEAN
    /\ wrote \in [Streams -> Seq(Frames)] /\ nread \in [Streams -> Nat]
    /\ pump \in [Streams -> {"reading", "eof", "done"}]
    /\ over \in [Streams -> BOOLEAN]
    /\ chan \in Seq(Events) /\ signalled \in BOOLEAN

AgentTypes ==
    /\ rows \in [Sessions -> Rows] /\ mem \in [Sessions -> Rows]
    /\ files \in [Sessions -> SUBSET (Ended \union {"bundle"})]
    /\ cl \in Clients /\ touched \in BOOLEAN /\ runs \in 0 .. MaxRuns

-----------------------------------------------------------------------------
(* What the client has heard                                                *)

(* An entry that the client reads as a line of stdout, or as its overflow.  *)
Line(e) == e.stream = "out" /\ e.frame \in Frames \union {"overflow"}

(* Something follows entry i of the channel.                                *)
Later(q, i) == \E j \in DOMAIN q : j > i /\ Line(q[j])

Ending(e) == e.stream = "out" /\ e.frame \in Terminals \union {"overflow"}

(* The stream is past its budget and has not said so yet.                   *)
Dropped(o, p) == o["out"] /\ p["out"] = "reading"

(* f is the last line the pump has read.                                    *)
LastRead(w, n, f) == n \in 1 .. Len(w) /\ w[n] = f

(* What the channel q and the terminal frame the client holds say of the n  *)
(* lines read from w.                                                       *)
Told(q, w, n, o, p, term) ==
    /\ \A i \in DOMAIN q : q[i].stream = "out" /\ q[i].frame \in Frames =>
          Later(q, i) \/ Dropped(o, p) \/ LastRead(w, n, q[i].frame)
    /\ term # "none" => Later(q, 0) \/ Dropped(o, p) \/ LastRead(w, n, term)
    /\ term = "none" => \A i \in 1 .. n : w[i] \in Terminals =>
          Dropped(o, p) \/ \E j \in DOMAIN q : Ending(q[j])

Heard == Draining => Told(chan, wrote["out"], nread["out"], over, pump, cl.term)

(* Both ends of the pipes: a pump stops at the end of a stream nobody can   *)
(* write any more, and finalize waits for both.                             *)
Piped ==
    /\ \A s \in Streams : nread[s] <= Len(wrote[s])
    /\ \A s \in Streams : pump[s] # "reading" => Gone /\ nread[s] = Len(wrote[s])
    /\ fin = "closed" => \A s \in Streams : pump[s] = "done"

(* A signal has a reason that outranks the exit status.                     *)
Reasons ==
    /\ signalled => ctx = "cancelled" \/ timer \in {"fired", "done"}
    /\ fact = "ok" => child = "ok" /\ ~signalled

Reaped ==
    /\ Followed => Piped /\ verdict = "none"
    /\ Followed /\ cl.op = "verify" => Reasons

-----------------------------------------------------------------------------
(* What the files and the rows hold                                         *)

(* A Session the Runtime knows is the one of its row.                       *)
SessionOK(s) ==
    /\ rows[s].st \in Ended => mem[s].st = rows[s].st
    /\ s > runs => /\ rows[s].st \in {"none", "STARTING"}
                   /\ rows[s].pid = "none" /\ mem[s].pid = "none"
    /\ mem[s].pid # "none" => mem[s].prov = rows[s].prov

(* A run belongs to a Session whose row has not ended.                      *)
Running == cl.sess \in 1 .. runs /\ rows[cl.sess].st \notin Ended

(* The evidence of what the Decision will record.                           *)
Recorded ==
    /\ verdict \in {"COMPLETED", "FAILED", "bound", "lost"}
    /\ verdict \in {"COMPLETED", "FAILED"} =>
         verdict \in files[cl.sess] /\ mem[cl.sess].st = verdict
    /\ verdict = "lost" =>
         {"LOST", "bundle"} \subseteq files[cl.sess]
         /\ mem[cl.sess].st = "LOST" /\ mem[cl.sess].pid # "none"

ClientOK ==
    /\ Draining => /\ Running
                   /\ cl.started => cl.est # "none"
                   /\ cl.term # "none" => cl.started
    /\ cl.at = "lost" => /\ Running /\ "bundle" \in files[cl.sess]
                         /\ mem[cl.sess].st = "LOST" /\ mem[cl.sess].pid # "none"
    /\ cl.at = "record" => Running /\ Recorded

Evidence == EndedHasEvidence /\ ClientOK /\ \A s \in Sessions : SessionOK(s)

AgentsInv ==
    /\ SupTypes /\ AgentTypes /\ Heard /\ Reaped /\ Evidence
    /\ JudgedOnWholeOutput /\ PassedIsCurrent

-----------------------------------------------------------------------------
(* The event channel                                                        *)

(* The lines of the protocol are none of the channel's own marks.           *)
LEMMA Marked ==
    /\ Frames \cap Marks = {} /\ "none" \notin Frames /\ Terminals \subseteq Frames
    /\ "none" \notin ProviderIds /\ ProviderIds \cap Terminals = {}
    /\ "msg" \notin Terminals /\ "none" \notin Terminals
    /\ "overflow" \notin Terminals /\ "eof" \notin Terminals
  BY AgentsBounds DEF Frames, Marks, Terminals

(* Receiving an entry.                                                      *)
LEMMA TailRow ==
    ASSUME NEW S, NEW q \in Seq(S), q # <<>>
    PROVE  /\ Tail(q) \in Seq(S) /\ Head(q) = q[1] /\ q[1] \in S
           /\ Len(q) \in Nat /\ Len(q) >= 1
           /\ DOMAIN q = 1 .. Len(q) /\ DOMAIN Tail(q) = 1 .. (Len(q) - 1)
           /\ \A i \in 1 .. (Len(q) - 1) : Tail(q)[i] = q[i + 1]
  BY LenProperties, EmptySeq, HeadTailProperties

(* Queueing keeps what follows an entry, and a line follows all of them.    *)
LEMMA LaterQueued ==
    ASSUME NEW q \in Seq(Events), NEW e \in Events, NEW i \in 0 .. Len(q)
    PROVE  /\ Later(q, i) => Later(Append(q, e), i)
           /\ Line(e) => Later(Append(q, e), i)
  <1> DEFINE r == Append(q, e)
  <1>1. /\ Len(q) \in Nat /\ DOMAIN q = 1 .. Len(q) /\ DOMAIN r = 1 .. Len(q) + 1
        /\ \A j \in DOMAIN q : r[j] = q[j]
        /\ r[Len(q) + 1] = e
    BY AppendRow
  <1> HIDE DEF r
  <1>2. ASSUME Later(q, i) PROVE Later(r, i)
    BY <1>1, <1>2 DEF Later
  <1>3. ASSUME Line(e) PROVE Later(r, i)
    BY <1>1, <1>3 DEF Later
  <1> QED BY <1>2, <1>3 DEF r

(* Receiving keeps what follows a later entry.                              *)
LEMMA LaterReceived ==
    ASSUME NEW q \in Seq(Events), q # <<>>, NEW i \in Nat, Later(q, i + 1)
    PROVE  Later(Tail(q), i)
  <1> DEFINE r == Tail(q)
  <1>1. /\ Len(q) \in Nat /\ Len(q) >= 1 /\ DOMAIN q = 1 .. Len(q)
        /\ DOMAIN r = 1 .. (Len(q) - 1)
        /\ \A j \in 1 .. (Len(q) - 1) : r[j] = q[j + 1]
    BY TailRow
  <1> HIDE DEF r
  <1>2. PICK j \in DOMAIN q : j > i + 1 /\ Line(q[j])
    BY DEF Later
  <1>3. j - 1 \in DOMAIN r /\ j - 1 > i /\ r[j - 1] = q[j]
    BY <1>1, <1>2
  <1>4. Later(r, i)
    BY <1>2, <1>3 DEF Later
  <1> QED BY <1>4 DEF r

(* An entry that is not a line is queued.                                   *)
LEMMA ToldQueued ==
    ASSUME NEW q \in Seq(Events), NEW w, NEW n, NEW o, NEW p, NEW term,
           Told(q, w, n, o, p, term),
           NEW e \in Events, ~(e.stream = "out" /\ e.frame \in Frames),
           NEW o2, NEW p2, Dropped(o, p) => Dropped(o2, p2) \/ (Line(e) /\ Ending(e))
    PROVE  Told(Append(q, e), w, n, o2, p2, term)
  <1> DEFINE r == Append(q, e)
  <1>1. /\ Len(q) \in Nat /\ DOMAIN q = 1 .. Len(q) /\ DOMAIN r = 1 .. Len(q) + 1
        /\ \A j \in DOMAIN q : r[j] = q[j]
        /\ r[Len(q) + 1] = e
    BY AppendRow
  <1>2. \A i \in 0 .. Len(q) : /\ Later(q, i) => Later(r, i)
                               /\ Line(e) => Later(r, i)
    BY LaterQueued
  <1> HIDE DEF r
  <1>3. (\E j \in DOMAIN q : Ending(q[j])) => \E j \in DOMAIN r : Ending(r[j])
    BY <1>1
  <1>4. Ending(e) => \E j \in DOMAIN r : Ending(r[j])
    BY <1>1
  <1>5. \A i \in DOMAIN r : r[i].stream = "out" /\ r[i].frame \in Frames =>
           Later(r, i) \/ Dropped(o2, p2) \/ LastRead(w, n, r[i].frame)
    BY <1>1, <1>2 DEF Told
  <1>6. term # "none" => Later(r, 0) \/ Dropped(o2, p2) \/ LastRead(w, n, term)
    BY <1>1, <1>2 DEF Told
  <1>7. term = "none" => \A i \in 1 .. n : w[i] \in Terminals =>
           Dropped(o2, p2) \/ \E j \in DOMAIN r : Ending(r[j])
    BY <1>3, <1>4 DEF Told
  <1>8. Told(r, w, n, o2, p2, term)
    BY <1>5, <1>6, <1>7 DEF Told
  <1> QED BY <1>8 DEF r

(* The next line is read and queued.                                        *)
LEMMA ToldRead ==
    ASSUME NEW q \in Seq(Events), NEW w \in Seq(Frames), NEW n \in Nat, n < Len(w),
           NEW o, NEW p, NEW term, Told(q, w, n, o, p, term),
           NEW e \in Events, e.stream = "out", e.frame = w[n + 1]
    PROVE  Told(Append(q, e), w, n + 1, o, p, term)
  <1> DEFINE r == Append(q, e)
  <1>1. /\ Len(q) \in Nat /\ DOMAIN q = 1 .. Len(q) /\ DOMAIN r = 1 .. Len(q) + 1
        /\ \A j \in DOMAIN q : r[j] = q[j]
        /\ r[Len(q) + 1] = e
    BY AppendRow
  <1>2. w[n + 1] \in Frames /\ n + 1 \in 1 .. Len(w)
    BY LenProperties
  <1>3. Line(e) /\ (w[n + 1] \in Terminals => Ending(e))
    BY <1>2 DEF Line, Ending
  <1>4. \A i \in 0 .. Len(q) : Later(r, i)
    BY <1>3, LaterQueued
  <1>5. LastRead(w, n + 1, e.frame)
    BY <1>2 DEF LastRead
  <1> HIDE DEF r
  <1>6. \A i \in DOMAIN r : Later(r, i) \/ (i = Len(q) + 1 /\ r[i] = e)
    BY <1>1, <1>4
  <1>7. Later(r, 0)
    BY <1>1, <1>4
  <1>8. (\E j \in DOMAIN q : Ending(q[j])) => \E j \in DOMAIN r : Ending(r[j])
    BY <1>1
  <1>9. Ending(e) => \E j \in DOMAIN r : Ending(r[j])
    BY <1>1
  <1>10. \A i \in 1 .. n + 1 : i \in 1 .. n \/ i = n + 1
    OBVIOUS
  <1>11. term = "none" => \A i \in 1 .. n + 1 : w[i] \in Terminals =>
           Dropped(o, p) \/ \E j \in DOMAIN r : Ending(r[j])
    BY <1>3, <1>8, <1>9, <1>10 DEF Told
  <1>12. Told(r, w, n + 1, o, p, term)
    BY <1>5, <1>6, <1>7, <1>11 DEF Told
  <1> QED BY <1>12 DEF r

(* A line past the budget is read and dropped.                              *)
LEMMA ToldDropped ==
    ASSUME NEW q, NEW w, NEW n, NEW o, NEW p, NEW term, Dropped(o, p)
    PROVE  Told(q, w, n, o, p, term)
  BY DEF Told

(* The child writes behind the lines that were read.                        *)
LEMMA ToldWritten ==
    ASSUME NEW q, NEW w \in Seq(Frames), NEW n \in Nat, n <= Len(w), NEW f \in Frames,
           NEW o, NEW p, NEW term, Told(q, w, n, o, p, term)
    PROVE  Told(q, Append(w, f), n, o, p, term)
  <1> DEFINE v == Append(w, f)
  <1>1. /\ Len(w) \in Nat /\ DOMAIN w = 1 .. Len(w) /\ Len(v) = Len(w) + 1
        /\ \A j \in DOMAIN w : v[j] = w[j]
    BY AppendRow
  <1> HIDE DEF v
  <1>2. \A g : LastRead(w, n, g) => LastRead(v, n, g)
    BY <1>1 DEF LastRead
  <1>3. \A i \in 1 .. n : v[i] = w[i]
    BY <1>1
  <1>4. Told(q, v, n, o, p, term)
    BY <1>2, <1>3 DEF Told
  <1> QED BY <1>4 DEF v

(* The client receives an entry that is no line, or a line that is neither  *)
(* terminal nor behind a terminal one.                                      *)
LEMMA ToldReceived ==
    ASSUME NEW q \in Seq(Events), q # <<>>, NEW w, NEW n, NEW o, NEW p, NEW term,
           Told(q, w, n, o, p, term),
           ~Ending(q[1]), Line(q[1]) => term = "none"
    PROVE  Told(Tail(q), w, n, o, p, term)
  <1> DEFINE r == Tail(q)
  <1>1. /\ Len(q) \in Nat /\ Len(q) >= 1 /\ DOMAIN q = 1 .. Len(q)
        /\ DOMAIN r = 1 .. (Len(q) - 1)
        /\ \A j \in 1 .. (Len(q) - 1) : r[j] = q[j + 1]
    BY TailRow
  <1>2. \A i \in Nat : Later(q, i + 1) => Later(r, i)
    BY LaterReceived
  <1> HIDE DEF r
  <1>3. term # "none" /\ Later(q, 0) => Later(q, 1)
    BY <1>1 DEF Later
  <1>4. \A i \in DOMAIN r : /\ i + 1 \in DOMAIN q /\ r[i] = q[i + 1]
                            /\ Later(q, i + 1) => Later(r, i)
    BY <1>1, <1>2
  <1>5. (\E j \in DOMAIN q : Ending(q[j])) => \E j \in DOMAIN r : Ending(r[j])
    <2> SUFFICES ASSUME NEW j \in DOMAIN q, Ending(q[j])
                 PROVE  \E k \in DOMAIN r : Ending(r[k])
      OBVIOUS
    <2>1. j # 1
      OBVIOUS
    <2>2. j - 1 \in DOMAIN r /\ r[j - 1] = q[j]
      BY <1>1, <2>1
    <2> QED BY <2>2
  <1>6. \A i \in DOMAIN r : r[i].stream = "out" /\ r[i].frame \in Frames =>
           Later(r, i) \/ Dropped(o, p) \/ LastRead(w, n, r[i].frame)
    BY <1>4 DEF Told
  <1>7. Later(q, 1) => Later(r, 0)
    BY <1>2
  <1>8. Told(r, w, n, o, p, term)
    BY <1>3, <1>5, <1>6, <1>7 DEF Told
  <1> QED BY <1>8 DEF r

(* The client receives the first terminal frame.                            *)
LEMMA ToldTerminal ==
    ASSUME NEW q \in Seq(Events), q # <<>>, NEW w, NEW n, NEW o, NEW p,
           Told(q, w, n, o, p, "none"),
           q[1].stream = "out", q[1].frame \in Terminals
    PROVE  Told(Tail(q), w, n, o, p, q[1].frame)
  <1> DEFINE r == Tail(q)
             f == q[1].frame
  <1>1. /\ Len(q) \in Nat /\ Len(q) >= 1 /\ DOMAIN q = 1 .. Len(q)
        /\ DOMAIN r = 1 .. (Len(q) - 1)
        /\ \A j \in 1 .. (Len(q) - 1) : r[j] = q[j + 1]
    BY TailRow
  <1>2. \A i \in Nat : Later(q, i + 1) => Later(r, i)
    BY LaterReceived
  <1>3. f # "none" /\ f \in Frames
    BY Marked
  <1> HIDE DEF r
  <1>4. \A i \in DOMAIN r : /\ i + 1 \in DOMAIN q /\ r[i] = q[i + 1]
                            /\ Later(q, i + 1) => Later(r, i)
    BY <1>1, <1>2
  <1>5. \A i \in DOMAIN r : r[i].stream = "out" /\ r[i].frame \in Frames =>
           Later(r, i) \/ Dropped(o, p) \/ LastRead(w, n, r[i].frame)
    BY <1>4 DEF Told
  <1>6. 1 \in DOMAIN q /\ (Later(q, 1) => Later(r, 0))
    BY <1>1, <1>2
  <1>7. Later(r, 0) \/ Dropped(o, p) \/ LastRead(w, n, f)
    BY <1>3, <1>6 DEF Told
  <1>8. Told(r, w, n, o, p, f)
    BY <1>3, <1>5, <1>7 DEF Told
  <1> QED BY <1>8 DEF r

-----------------------------------------------------------------------------
(* The process, its pumps and its reaper                                    *)

(* A step of the process leaves the Sessions and the client alone.          *)
LEMMA SupFrame ==
    ASSUME AgentsInv, Followed, UNCHANGED agentVars, SupTypes', Piped',
           cl.op = "verify" => Reasons', Heard'
    PROVE  AgentsInv'
  <1>1. AgentTypes' /\ Evidence'
    BY DEF AgentsInv, AgentTypes, agentVars, Evidence, EndedHasEvidence, ClientOK, SessionOK,
           Draining, Running, Recorded
  <1>2. verdict' = "none" /\ cl' = cl /\ cl.at = "drain"
    BY DEF AgentsInv, Reaped, Followed, agentVars
  <1>3. Reaped' /\ JudgedOnWholeOutput' /\ PassedIsCurrent'
    BY <1>2 DEF Reaped, Followed, JudgedOnWholeOutput, PassedIsCurrent
  <1> QED BY <1>1, <1>3 DEF AgentsInv

(* What the proofs about the process use of the invariant.                  *)
LEMMA Followable ==
    ASSUME AgentsInv, Followed
    PROVE  /\ SupTypes /\ Piped /\ (cl.op = "verify" => Reasons) /\ cl \in Clients
           /\ cl.at = "drain" /\ (Draining <=> cl.op # "verify")
           /\ cl.op # "verify" => Told(chan, wrote["out"], nread["out"], over, pump, cl.term)
           /\ "out" \in Streams /\ "err" \in Streams
  BY DEF AgentsInv, AgentTypes, Reaped, Heard, Draining, Followed, Streams

(* A line is written behind those that were read.                           *)
LEMMA WriteStep ==
    ASSUME AgentsInv, Followed, UNCHANGED agentVars,
           NEW s \in Streams, NEW f \in Frames, ChildWrite(s, f)
    PROVE  AgentsInv'
  <1>1. /\ SupTypes /\ Piped /\ (cl.op = "verify" => Reasons)
        /\ cl.op # "verify" => Told(chan, wrote["out"], nread["out"], over, pump, cl.term)
        /\ "out" \in Streams /\ cl' = cl
    BY Followable DEF agentVars
  <1>2. wrote[s] \in Seq(Frames) /\ nread[s] \in Nat /\ nread[s] <= Len(wrote[s])
    BY <1>1 DEF SupTypes, Piped
  <1> DEFINE v == Append(wrote[s], f)
  <1>3. v \in Seq(Frames) /\ Len(v) = Len(wrote[s]) + 1 /\ Len(wrote[s]) \in Nat
    BY <1>2, AppendRow
  <1>4. /\ wrote' = [wrote EXCEPT ![s] = v]
        /\ UNCHANGED <<child, orphan, nread, pump, over, chan, fin, fact, timer, ctx,
                       signalled>>
        /\ ~Gone /\ Gone' = Gone
    BY <1>1 DEF ChildWrite, SupTypes, Gone, Exited, Exits
  <1>5. cl.op # "verify" /\ s = "out" => Told(chan, v, nread["out"], over, pump, cl.term)
    BY <1>1, <1>2, ToldWritten
  <1> HIDE DEF v
  <1>6. /\ wrote' \in [Streams -> Seq(Frames)] /\ wrote'[s] = v
        /\ \A t \in Streams \ {s} : wrote'[t] = wrote[t]
    BY <1>1, <1>3, <1>4 DEF SupTypes
  <1>7. SupTypes'
    BY <1>1, <1>4, <1>6 DEF SupTypes
  <1>8. Piped'
    BY <1>1, <1>2, <1>3, <1>4, <1>6 DEF Piped
  <1>9. cl.op = "verify" => Reasons'
    BY <1>1, <1>4 DEF Reasons
  <1>10. Heard'
    BY <1>1, <1>4, <1>5, <1>6 DEF Heard, Draining
  <1> QED BY <1>7, <1>8, <1>9, <1>10, SupFrame

(* The child or a descendant ends, or the context is cancelled.             *)
LEMMA EndStep ==
    ASSUME AgentsInv, Followed, UNCHANGED agentVars,
           (\E how \in Exits : ChildExit(how)) \/ OrphanExit \/ Cancel
    PROVE  AgentsInv'
  <1>1. /\ SupTypes /\ Piped /\ (cl.op = "verify" => Reasons)
        /\ cl.op # "verify" => Told(chan, wrote["out"], nread["out"], over, pump, cl.term)
        /\ cl' = cl
    BY Followable DEF agentVars
  <1>2. /\ UNCHANGED <<wrote, nread, pump, over, chan, fin, fact, timer, signalled>>
        /\ child' \in {"none", "alive"} \union Exits /\ orphan' \in BOOLEAN
        /\ child = "ok" => child' = "ok"
        /\ Gone => Gone'
        /\ ctx = "cancelled" => ctx' = "cancelled"
    <2>0. child \in {"none", "alive"} \union Exits /\ orphan \in BOOLEAN
      BY <1>1 DEF SupTypes
    <2>1. CASE \E how \in Exits : ChildExit(how)
      BY <2>0, <2>1 DEF ChildExit, Gone, Exited, Exits
    <2>2. CASE OrphanExit
      BY <2>0, <2>2 DEF OrphanExit, Gone, Exited
    <2>3. CASE Cancel
      BY <2>0, <2>3 DEF Cancel, Gone, Exited
    <2> QED BY <2>1, <2>2, <2>3
  <1>3. SupTypes'
    BY <1>1, <1>2 DEF SupTypes
  <1>4. Piped'
    BY <1>1, <1>2 DEF Piped
  <1>5. cl.op = "verify" => Reasons'
    BY <1>1, <1>2 DEF Reasons
  <1>6. Heard'
    BY <1>1, <1>2 DEF Heard, Draining
  <1> QED BY <1>3, <1>4, <1>5, <1>6, SupFrame

(* An entry of stream s.                                                    *)
LEMMA EventIn ==
    ASSUME NEW s \in Streams, NEW f \in Frames \union Marks
    PROVE  /\ Event(s, f) \in Events /\ Event(s, f).stream = s /\ Event(s, f).frame = f
  BY DEF Event, Events

(* A pump reads a line.                                                     *)
LEMMA ReadStep ==
    ASSUME AgentsInv, Followed, UNCHANGED agentVars, NEW s \in Streams, PumpRead(s)
    PROVE  AgentsInv'
  <1>1. /\ SupTypes /\ Piped /\ (cl.op = "verify" => Reasons)
        /\ cl.op # "verify" => Told(chan, wrote["out"], nread["out"], over, pump, cl.term)
        /\ "out" \in Streams /\ cl' = cl
    BY Followable DEF agentVars
  <1>2. /\ wrote[s] \in Seq(Frames) /\ nread[s] \in Nat /\ nread[s] < Len(wrote[s])
        /\ Len(wrote[s]) \in Nat /\ chan \in Seq(Events) /\ pump[s] = "reading"
    BY <1>1, LenProperties DEF SupTypes, PumpRead
  <1>3. /\ nread' = [nread EXCEPT ![s] = nread[s] + 1]
        /\ UNCHANGED <<child, orphan, wrote, pump, fin, fact, timer, ctx, signalled>>
        /\ Gone' = Gone
    BY DEF PumpRead, Gone, Exited
  <1>4. /\ nread' \in [Streams -> Nat] /\ nread'[s] = nread[s] + 1
        /\ \A t \in Streams \ {s} : nread'[t] = nread[t]
    BY <1>1, <1>2, <1>3 DEF SupTypes
  <1>5. Piped'
    BY <1>1, <1>2, <1>3, <1>4 DEF Piped
  <1>6. cl.op = "verify" => Reasons'
    BY <1>1, <1>3 DEF Reasons
  <1> DEFINE e == Event(s, wrote[s][nread[s] + 1])
  <1>7. e \in Events /\ e.stream = s /\ e.frame = wrote[s][nread[s] + 1]
    <2>1. wrote[s][nread[s] + 1] \in Frames
      BY <1>2
    <2> QED BY <2>1, EventIn
  <1>8. CASE nread[s] >= Budget
    <2>1. over' = [over EXCEPT ![s] = TRUE] /\ chan' = chan
      BY <1>8 DEF PumpRead
    <2>2. /\ over' \in [Streams -> BOOLEAN] /\ over'[s]
          /\ \A t \in Streams \ {s} : over'[t] = over[t]
      BY <1>1, <2>1 DEF SupTypes
    <2>3. SupTypes'
      BY <1>1, <1>3, <1>4, <2>1, <2>2 DEF SupTypes
    <2>4. s = "out" => Dropped(over', pump')
      BY <1>2, <1>3, <2>2 DEF Dropped
    <2>5. s # "out" => (Dropped(over', pump') <=> Dropped(over, pump))
      BY <1>1, <1>3, <2>2 DEF Dropped
    <2>6. Heard'
      <3>1. CASE s = "out"
        BY <2>4, <3>1, ToldDropped DEF Heard
      <3>2. CASE s # "out"
        BY <1>1, <1>3, <1>4, <2>1, <2>5, <3>2 DEF Heard, Draining, Told
      <3> QED BY <3>1, <3>2
    <2> QED BY <1>5, <1>6, <2>3, <2>6, SupFrame
  <1>9. CASE ~(nread[s] >= Budget)
    <2>1. chan' = Append(chan, e) /\ over' = over
      BY <1>9 DEF PumpRead
    <2> HIDE DEF e
    <2>2. chan' \in Seq(Events)
      BY <1>2, <1>7, <2>1, AppendRow
    <2>3. SupTypes'
      BY <1>1, <1>3, <1>4, <2>1, <2>2 DEF SupTypes
    <2>4. Heard'
      <3>1. CASE s = "out"
        <4>1. cl.op # "verify" =>
                Told(Append(chan, e), wrote["out"], nread["out"] + 1, over, pump, cl.term)
          BY <1>1, <1>2, <1>7, <3>1, ToldRead
        <4> QED BY <1>1, <1>3, <1>4, <2>1, <3>1, <4>1 DEF Heard, Draining
      <3>2. CASE s # "out"
        <4>1. cl.op # "verify" =>
                Told(Append(chan, e), wrote["out"], nread["out"], over, pump, cl.term)
          BY <1>1, <1>2, <1>7, <3>2, ToldQueued
        <4> QED BY <1>1, <1>3, <1>4, <2>1, <3>2, <4>1 DEF Heard, Draining
      <3> QED BY <3>1, <3>2
    <2> QED BY <1>5, <1>6, <2>3, <2>4, SupFrame
  <1> QED BY <1>8, <1>9

(* A pump reports its overflow or its end.                                  *)
LEMMA PumpEndStep ==
    ASSUME AgentsInv, Followed, UNCHANGED agentVars, NEW s \in Streams, PumpEnd(s)
    PROVE  AgentsInv'
  <1>1. /\ SupTypes /\ Piped /\ (cl.op = "verify" => Reasons)
        /\ cl.op # "verify" => Told(chan, wrote["out"], nread["out"], over, pump, cl.term)
        /\ "out" \in Streams /\ cl' = cl
    BY Followable DEF agentVars
  <1> DEFINE flow == pump[s] = "reading" /\ over[s]
             f == IF flow THEN "overflow" ELSE "eof"
             e == Event(s, f)
             next == IF flow THEN "eof" ELSE "done"
  <1>2. /\ UNCHANGED <<child, orphan, wrote, nread, over, fin, fact, timer, ctx, signalled>>
        /\ Gone' = Gone /\ chan' = Append(chan, e) /\ pump' = [pump EXCEPT ![s] = next]
        /\ pump[s] # "done" /\ Gone /\ nread[s] = Len(wrote[s])
    BY <1>1 DEF PumpEnd, Gone, Exited, Piped
  <1>3. next \in {"eof", "done"}
    OBVIOUS
  <1>4. /\ e \in Events /\ e.stream = s /\ e.frame \notin Frames
        /\ flow => e.frame = "overflow"
    <2>1. f \in Marks /\ (flow => f = "overflow")
      BY DEF Marks
    <2> HIDE DEF f
    <2> QED BY <2>1, EventIn, Marked
  <1>5. s = "out" /\ flow => Line(e) /\ Ending(e)
    BY <1>4 DEF Line, Ending
  <1> HIDE DEF e, next
  <1>6. /\ pump' \in [Streams -> {"reading", "eof", "done"}] /\ pump'[s] = next
        /\ \A t \in Streams \ {s} : pump'[t] = pump[t]
    BY <1>1, <1>2, <1>3 DEF SupTypes
  <1>7. chan' \in Seq(Events)
    BY <1>1, <1>2, <1>4, AppendRow DEF SupTypes
  <1>8. SupTypes'
    BY <1>1, <1>2, <1>6, <1>7 DEF SupTypes
  <1>9. fin # "closed"
    BY <1>1, <1>2 DEF Piped
  <1>10. Piped'
    BY <1>1, <1>2, <1>3, <1>6, <1>9 DEF Piped
  <1>11. cl.op = "verify" => Reasons'
    BY <1>1, <1>2 DEF Reasons
  <1>12. Dropped(over, pump) => Dropped(over', pump') \/ (Line(e) /\ Ending(e))
    <2>1. CASE s = "out"
      BY <1>5, <2>1 DEF Dropped
    <2>2. CASE s # "out"
      BY <1>1, <1>2, <1>6, <2>2 DEF Dropped
    <2> QED BY <2>1, <2>2
  <1>13. cl.op # "verify" =>
           Told(Append(chan, e), wrote["out"], nread["out"], over', pump', cl.term)
    BY <1>1, <1>4, <1>12, ToldQueued DEF SupTypes
  <1>14. Heard'
    BY <1>1, <1>2, <1>13 DEF Heard, Draining
  <1> QED BY <1>8, <1>10, <1>11, <1>14, SupFrame

(* The reaper, the timer and the watcher.                                   *)
LEMMA ReapStep ==
    ASSUME AgentsInv, Followed, UNCHANGED agentVars,
           Reap \/ Close \/ TimerSignal \/ WatchCancel \/ TimerFire
    PROVE  AgentsInv'
  <1>1. /\ SupTypes /\ Piped /\ (cl.op = "verify" => Reasons)
        /\ cl.op # "verify" => Told(chan, wrote["out"], nread["out"], over, pump, cl.term)
        /\ cl' = cl
    BY Followable DEF agentVars
  <1>2. /\ UNCHANGED <<child, orphan, wrote, nread, pump, over, chan, ctx>> /\ Gone' = Gone
        /\ timer \in {"fired", "done"} => timer' \in {"fired", "done"}
        /\ fin' = "closed" => fin = "closed" \/ \A s \in Streams : pump[s] = "done"
        /\ signalled' \in BOOLEAN
        /\ signalled' => signalled \/ (child = "alive" /\
                           (ctx = "cancelled" \/ timer' \in {"fired", "done"}))
        /\ fact' = fact \/ (signalled' = signalled /\ (fact' = "ok" =>
             child = "ok" /\ ctx # "cancelled" /\ timer \notin {"fired", "done"}))
    <2>0. signalled \in BOOLEAN /\ child \in {"none", "alive"} \union Exits
      BY <1>1 DEF SupTypes
    <2>1. CASE Reap
      BY <2>0, <2>1 DEF Reap, Gone, Exited
    <2>2. CASE Close
      BY <2>0, <2>2 DEF Close, StopTimer, Gone, Exited
    <2>3. CASE TimerSignal
      BY <2>0, <2>3 DEF TimerSignal, Terminate, Gone, Exited
    <2>4. CASE WatchCancel
      BY <2>0, <2>4 DEF WatchCancel, Terminate, StopTimer, Gone, Exited
    <2>5. CASE TimerFire
      BY <2>0, <2>5 DEF TimerFire, Gone, Exited
    <2> QED BY <2>1, <2>2, <2>3, <2>4, <2>5
  <1>3. SupTypes'
    BY <1>1, <1>2 DEF SupTypes
  <1>4. Piped'
    BY <1>1, <1>2 DEF Piped
  <1>5. cl.op = "verify" => Reasons'
    BY <1>1, <1>2 DEF Reasons
  <1>6. Heard'
    BY <1>1, <1>2 DEF Heard, Draining
  <1> QED BY <1>3, <1>4, <1>5, <1>6, SupFrame

(* Whatever the process and its goroutines do.                              *)
LEMMA ProcessStep ==
    ASSUME AgentsInv, Followed, UNCHANGED agentVars,
           Environment(Spoken) \/ Goroutines \/ TimerFire
    PROVE  AgentsInv'
  <1>1. Spoken \subseteq Frames /\ "msg" \in Frames /\ "out" \in Streams /\ "err" \in Streams
    BY DEF Spoken, Frames, Streams
  <1>2. CASE Environment(Spoken)
    BY <1>1, <1>2, WriteStep, EndStep DEF Environment
  <1>3. CASE Goroutines
    BY <1>3, ReadStep, PumpEndStep, ReapStep DEF Goroutines
  <1> QED BY <1>2, <1>3, ReapStep

-----------------------------------------------------------------------------
(* Sessions, rows and evidence                                              *)

SessionsOK == EndedHasEvidence /\ \A s \in Sessions : SessionOK(s)

(* A Session of the Runtime changes under a row that has not ended.         *)
LEMMA MemoryStep ==
    ASSUME AgentTypes, SessionsOK, UNCHANGED <<rows, runs>>,
           NEW k \in Sessions, k <= runs, rows[k].st \notin Ended,
           NEW m \in Rows, m.pid # "none" => m.prov = rows[k].prov,
           mem' = [mem EXCEPT ![k] = m],
           files' \in [Sessions -> SUBSET (Ended \union {"bundle"})],
           \A s \in Sessions : files[s] \subseteq files'[s]
    PROVE  SessionsOK' /\ mem' \in [Sessions -> Rows] /\ mem'[k] = m
  <1>1. /\ mem' \in [Sessions -> Rows] /\ mem'[k] = m
        /\ \A s \in Sessions \ {k} : mem'[s] = mem[s]
    BY DEF AgentTypes
  <1>2. EndedHasEvidence'
    <2> SUFFICES ASSUME NEW s \in Sessions
                 PROVE  /\ rows[s].st \in Ended => rows[s].st \in files'[s]
                        /\ rows[s].sup # 0 =>
                             /\ rows[rows[s].sup].st = "LOST"
                             /\ "bundle" \in files'[rows[s].sup]
                             /\ rows[s].prov = rows[rows[s].sup].prov + 1
      BY DEF EndedHasEvidence
    <2>1. rows[s].sup \in 0 .. MaxRuns
      BY DEF AgentTypes, Rows
    <2>2. rows[s].sup # 0 => rows[s].sup \in Sessions
      BY <2>1, AgentsBounds DEF Sessions
    <2> QED BY <2>2 DEF SessionsOK, EndedHasEvidence
  <1>3. \A s \in Sessions : SessionOK(s)'
    <2> SUFFICES ASSUME NEW s \in Sessions PROVE SessionOK(s)'
      OBVIOUS
    <2>1. k \in Nat /\ runs \in Nat
      BY AgentsBounds DEF Sessions, AgentTypes
    <2>2. CASE s = k
      BY <1>1, <2>1, <2>2 DEF SessionOK
    <2>3. CASE s # k
      BY <1>1, <2>3 DEF SessionOK, SessionsOK
    <2> QED BY <2>2, <2>3
  <1> QED BY <1>1, <1>2, <1>3 DEF SessionsOK

(* A row that has not ended changes, with the evidence of its end.          *)
LEMMA RowStep ==
    ASSUME AgentTypes, SessionsOK, UNCHANGED <<mem, files>>,
           NEW k \in Sessions, rows[k].st \notin Ended,
           NEW r \in Rows, rows' = [rows EXCEPT ![k] = r],
           r.prov = rows[k].prov, r.sup = rows[k].sup,
           r.st \in Ended => r.st \in files[k] /\ mem[k].st = r.st,
           runs' \in 0 .. MaxRuns, runs' >= runs,
           k > runs' => r.st \in {"none", "STARTING"} /\ r.pid = "none"
    PROVE  SessionsOK' /\ rows' \in [Sessions -> Rows] /\ rows'[k] = r
  <1>1. /\ rows' \in [Sessions -> Rows] /\ rows'[k] = r
        /\ \A s \in Sessions \ {k} : rows'[s] = rows[s]
    BY DEF AgentTypes
  <1>2. EndedHasEvidence'
    <2> SUFFICES ASSUME NEW s \in Sessions
                 PROVE  /\ rows'[s].st \in Ended => rows'[s].st \in files[s]
                        /\ rows'[s].sup # 0 =>
                             /\ rows'[rows'[s].sup].st = "LOST"
                             /\ "bundle" \in files[rows'[s].sup]
                             /\ rows'[s].prov = rows'[rows'[s].sup].prov + 1
      BY DEF EndedHasEvidence
    <2>1. rows'[s].sup = rows[s].sup /\ rows'[s].prov = rows[s].prov
      BY <1>1
    <2>2. rows[s].sup \in 0 .. MaxRuns
      BY DEF AgentTypes, Rows
    <2>3. rows[s].sup # 0 => rows[s].sup \in Sessions
      BY <2>2, AgentsBounds DEF Sessions
    <2>4. rows[s].sup # 0 => /\ rows[rows[s].sup].st = "LOST" /\ "bundle" \in files[rows[s].sup]
                             /\ rows[s].prov = rows[rows[s].sup].prov + 1
      BY DEF SessionsOK, EndedHasEvidence
    <2>5. rows[s].sup # 0 => rows[s].sup # k
      BY <2>4 DEF Ended
    <2>6. rows'[s].st \in Ended => rows'[s].st \in files[s]
      BY <1>1 DEF SessionsOK, EndedHasEvidence
    <2> QED BY <1>1, <2>1, <2>3, <2>4, <2>5, <2>6
  <1>3. \A s \in Sessions : SessionOK(s)'
    <2> SUFFICES ASSUME NEW s \in Sessions PROVE SessionOK(s)'
      OBVIOUS
    <2>1. s \in Nat /\ runs \in Nat /\ runs' \in Nat
      BY AgentsBounds DEF Sessions, AgentTypes
    <2>2. s > runs' => s > runs
      BY <2>1
    <2>3. CASE s = k
      BY <1>1, <2>2, <2>3 DEF SessionOK, SessionsOK
    <2>4. CASE s # k
      BY <1>1, <2>2, <2>4 DEF SessionOK, SessionsOK
    <2> QED BY <2>3, <2>4
  <1> QED BY <1>1, <1>2, <1>3 DEF SessionsOK

(* settleWith: the manifest is written before the status changes.           *)
LEMMA SettleStep ==
    ASSUME AgentsInv, Draining, NEW status \in {"COMPLETED", "FAILED"}, Settle(status),
           UNCHANGED <<rows, runs>>
    PROVE  /\ SessionsOK' /\ mem' \in [Sessions -> Rows]
           /\ files' \in [Sessions -> SUBSET (Ended \union {"bundle"})]
           /\ cl.est # "none" /\ cl.op # "bootstrap" =>
                status \in files'[cl.sess] /\ mem'[cl.sess].st = status
  <1>1. /\ AgentTypes /\ SessionsOK /\ Running
        /\ mem \in [Sessions -> Rows]
        /\ files \in [Sessions -> SUBSET (Ended \union {"bundle"})]
    BY DEF AgentsInv, Evidence, SessionsOK, ClientOK, AgentTypes
  <1>2. cl.sess \in Sessions /\ cl.sess <= runs /\ rows[cl.sess].st \notin Ended
    BY <1>1, AgentsBounds DEF Running, Sessions, AgentTypes
  <1>3. CASE cl.est = "none" \/ cl.op = "bootstrap"
    <2>1. UNCHANGED <<mem, files>>
      BY <1>3 DEF Settle
    <2> QED BY <1>1, <1>3, <2>1 DEF SessionsOK, EndedHasEvidence, SessionOK
  <1>4. CASE ~(cl.est = "none" \/ cl.op = "bootstrap")
    <2> DEFINE k == cl.sess
               m == [mem[k] EXCEPT !.st = status]
               fs == files[k] \union {status}
    <2>1. mem' = [mem EXCEPT ![k] = m] /\ files' = [files EXCEPT ![k] = fs]
      BY <1>4 DEF Settle
    <2>2. mem[k] \in Rows /\ status \in Ended
      BY <1>1, <1>2 DEF Ended
    <2>3. m \in Rows /\ m.st = status /\ m.pid = mem[k].pid /\ m.prov = mem[k].prov
      BY <2>2 DEF Rows
    <2>4. m.pid # "none" => m.prov = rows[k].prov
      BY <1>1, <1>2, <2>3 DEF SessionsOK, SessionOK
    <2>5. fs \in SUBSET (Ended \union {"bundle"}) /\ status \in fs /\ files[k] \subseteq fs
      BY <1>1, <1>2, <2>2
    <2> HIDE DEF m, fs, k
    <2>6. k \in Sessions /\ k <= runs /\ rows[k].st \notin Ended
      BY <1>2 DEF k
    <2>7. /\ files' \in [Sessions -> SUBSET (Ended \union {"bundle"})] /\ files'[k] = fs
          /\ \A s \in Sessions : files[s] \subseteq files'[s]
      BY <1>1, <2>1, <2>5, <2>6
    <2>8. SessionsOK' /\ mem' \in [Sessions -> Rows] /\ mem'[k] = m
      BY <1>1, <2>1, <2>3, <2>4, <2>6, <2>7, MemoryStep
    <2> QED BY <2>3, <2>5, <2>7, <2>8 DEF k
  <1> QED BY <1>3, <1>4

-----------------------------------------------------------------------------
(* The client of a Provider run                                             *)

(* The channel after an entry was received.                                 *)
LEMMA ReceiveStep ==
    ASSUME SupTypes, Receive, signalled' \in BOOLEAN
    PROVE  /\ SupTypes' /\ chan # <<>> /\ chan \in Seq(Events)
           /\ chan' = Tail(chan) /\ Head(chan) = chan[1] /\ chan[1] \in Events
           /\ UNCHANGED <<child, orphan, wrote, nread, pump, over, fin, fact, timer, ctx>>
  <1>1. chan # <<>> /\ chan \in Seq(Events) /\ chan' = Tail(chan)
    BY DEF SupTypes, Receive
  <1>2. Tail(chan) \in Seq(Events) /\ Head(chan) = chan[1] /\ chan[1] \in Events
    BY <1>1, TailRow
  <1> QED BY <1>1, <1>2 DEF SupTypes, Receive

(* A run that returns leaves nothing for a Decision to record.              *)
LEMMA ReturnStep ==
    ASSUME AgentsInv, cl.at = "drain", NEW v, Return(v), SupTypes', SessionsOK',
           mem' \in [Sessions -> Rows],
           files' \in [Sessions -> SUBSET (Ended \union {"bundle"})],
           UNCHANGED <<rows, touched, runs>>,
           v \notin {"passed", "COMPLETED", "crashed"}
    PROVE  AgentsInv'
  <1>1. /\ cl' = [cl EXCEPT !.at = "idle"] /\ verdict' = v /\ cl \in Clients
    BY DEF Return, AgentsInv, AgentTypes
  <1>2. cl' \in Clients /\ cl'.at = "idle"
    BY <1>1 DEF Clients
  <1>3. AgentTypes'
    BY <1>2 DEF AgentsInv, AgentTypes
  <1>4. Evidence'
    BY <1>2 DEF SessionsOK, Evidence, ClientOK, Draining
  <1>5. Heard' /\ Reaped'
    BY <1>2 DEF Heard, Reaped, Followed, Draining
  <1>6. JudgedOnWholeOutput' /\ PassedIsCurrent'
    BY <1>1 DEF JudgedOnWholeOutput, PassedIsCurrent
  <1> QED BY <1>3, <1>4, <1>5, <1>6 DEF AgentsInv

(* Nothing of the Sessions changes.                                         *)
LEMMA SameSessions ==
    ASSUME AgentsInv, UNCHANGED <<rows, mem, files, runs>>
    PROVE  /\ SessionsOK' /\ mem' \in [Sessions -> Rows]
           /\ files' \in [Sessions -> SUBSET (Ended \union {"bundle"})]
  BY DEF AgentsInv, AgentTypes, Evidence, SessionsOK, EndedHasEvidence, SessionOK

(* failProtocol: a broken stream, or a frame that breaks the protocol.      *)
LEMMA FailureStep ==
    ASSUME AgentsInv, BrokenStream \/ ProtocolViolation
    PROVE  AgentsInv'
  <1>1. /\ Draining /\ Receive /\ FailProtocol /\ UNCHANGED <<rows, touched, runs>>
        /\ signalled' \in BOOLEAN /\ SupTypes
    BY DEF BrokenStream, ProtocolViolation, Terminate, AgentsInv, SupTypes
  <1>2. SupTypes' /\ cl.at = "drain"
    BY <1>1, ReceiveStep DEF Draining
  <1>3. CASE ctx = "cancelled"
    <2>1. Return("interrupted") /\ UNCHANGED <<mem, files>>
      BY <1>1, <1>3 DEF FailProtocol
    <2> QED BY <1>1, <1>2, <2>1, SameSessions, ReturnStep
  <1>4. CASE ctx # "cancelled"
    <2>1. Return("protocol") /\ Settle("FAILED")
      BY <1>1, <1>4 DEF FailProtocol
    <2>2. /\ SessionsOK' /\ mem' \in [Sessions -> Rows]
          /\ files' \in [Sessions -> SUBSET (Ended \union {"bundle"})]
      BY <1>1, <2>1, SettleStep
    <2> QED BY <1>1, <1>2, <2>1, <2>2, ReturnStep
  <1> QED BY <1>3, <1>4

(* A run that returns an error of its own.                                  *)
LEMMA ErrorStep ==
    ASSUME AgentsInv,
           EstablishRefused \/ Interrupted \/ (\E settled \in BOOLEAN : LocalFailure(settled))
    PROVE  AgentsInv'
  <1>1. Draining /\ cl.at = "drain" /\ SupTypes /\ UNCHANGED <<rows, touched, runs>>
    BY DEF EstablishRefused, Interrupted, LocalFailure, Draining, AgentsInv
  <1>2. CASE EstablishRefused
    <2>1. Receive /\ signalled' \in BOOLEAN /\ Return("error") /\ UNCHANGED <<mem, files>>
      BY <1>1, <1>2 DEF EstablishRefused, SupTypes
    <2> QED BY <1>1, <2>1, ReceiveStep, SameSessions, ReturnStep
  <1>3. CASE Interrupted
    <2>1. SupTypes' /\ Return("interrupted") /\ UNCHANGED <<mem, files>>
      BY <1>1, <1>3 DEF Interrupted, supVars, SupTypes
    <2> QED BY <1>1, <2>1, SameSessions, ReturnStep
  <1>4. ASSUME NEW settled \in BOOLEAN, LocalFailure(settled)
        PROVE  AgentsInv'
    <2>1. /\ Receive /\ signalled' \in BOOLEAN /\ Return("error")
          /\ Settle("FAILED") \/ UNCHANGED <<mem, files>>
      BY <1>1, <1>4 DEF LocalFailure, SupTypes
    <2>2. /\ SessionsOK' /\ mem' \in [Sessions -> Rows]
          /\ files' \in [Sessions -> SUBSET (Ended \union {"bundle"})]
      BY <1>1, <2>1, SettleStep, SameSessions
    <2> QED BY <1>1, <2>1, <2>2, ReceiveStep, ReturnStep
  <1> QED BY <1>2, <1>3, <1>4

(* The client receives and goes on.                                         *)
LEMMA ListenStep ==
    ASSUME AgentsInv, Draining, Receive, signalled' = signalled,
           NEW c \in Clients, cl' = c, c.at = "drain", c.op = cl.op, c.sess = cl.sess,
           c.started => c.est # "none", c.term # "none" => c.started,
           Told(Tail(chan), wrote["out"], nread["out"], over, pump, c.term),
           UNCHANGED <<rows, files, verdict, touched, runs>>,
           SessionsOK', mem' \in [Sessions -> Rows]
    PROVE  AgentsInv'
  <1>1. /\ SupTypes /\ AgentTypes /\ Piped /\ Running /\ verdict = "none" /\ c.op # "verify"
        /\ cl.at = "drain" /\ signalled' \in BOOLEAN
    BY DEF AgentsInv, Draining, Reaped, Followed, Evidence, ClientOK, SupTypes
  <1>2. /\ SupTypes' /\ chan' = Tail(chan)
        /\ UNCHANGED <<child, orphan, wrote, nread, pump, over, fin, fact, timer, ctx>>
    BY <1>1, ReceiveStep
  <1>3. AgentTypes'
    BY <1>1 DEF AgentTypes
  <1>4. Heard'
    BY <1>2 DEF Heard
  <1>5. Reaped'
    BY <1>1, <1>2 DEF Reaped, Piped, Gone, Exited, Followed
  <1>6. Evidence'
    BY <1>1 DEF SessionsOK, Evidence, ClientOK, Draining, Running
  <1>7. JudgedOnWholeOutput' /\ PassedIsCurrent'
    BY <1>1 DEF JudgedOnWholeOutput, PassedIsCurrent
  <1> QED BY <1>2, <1>3, <1>4, <1>5, <1>6, <1>7 DEF AgentsInv

(* What the client of a Provider run knows.                                 *)
LEMMA DrainFacts ==
    ASSUME AgentsInv, Draining
    PROVE  /\ SupTypes /\ AgentTypes /\ cl \in Clients /\ Running /\ SessionsOK
           /\ Told(chan, wrote["out"], nread["out"], over, pump, cl.term)
           /\ cl.started => cl.est # "none"
           /\ cl.term # "none" => cl.started
           /\ cl.at = "drain" /\ chan \in Seq(Events) /\ verdict = "none"
           /\ cl.sess \in Sessions /\ cl.sess <= runs
           /\ rows[cl.sess] \in Rows /\ mem[cl.sess] \in Rows
  <1>1. /\ SupTypes /\ AgentTypes /\ cl \in Clients /\ Running /\ SessionsOK
        /\ Told(chan, wrote["out"], nread["out"], over, pump, cl.term)
        /\ cl.started => cl.est # "none"
        /\ cl.term # "none" => cl.started
        /\ cl.at = "drain" /\ chan \in Seq(Events) /\ verdict = "none"
    BY DEF AgentsInv, SupTypes, AgentTypes, Evidence, SessionsOK, ClientOK, Heard, Draining,
           Reaped, Followed
  <1>2. cl.sess \in Sessions /\ cl.sess <= runs
    BY <1>1, AgentsBounds DEF Running, Sessions, AgentTypes
  <1> QED BY <1>1, <1>2 DEF AgentTypes

(* An entry the client has no use for.                                      *)
LEMMA SkipStep ==
    ASSUME AgentsInv, SkipEvent
    PROVE  AgentsInv'
  <1>1. /\ Draining /\ Receive /\ signalled' = signalled
        /\ UNCHANGED <<rows, mem, files, cl, verdict, touched, runs>>
        /\ HeadIs("err", {"msg", "overflow", "eof"}) \/ HeadIs("out", {"started", "eof"})
    BY DEF SkipEvent, agentVars
  <1>2. /\ cl \in Clients /\ chan \in Seq(Events) /\ cl.at = "drain"
        /\ Told(chan, wrote["out"], nread["out"], over, pump, cl.term)
        /\ cl.started => cl.est # "none"
        /\ cl.term # "none" => cl.started
    BY <1>1, DrainFacts
  <1>3. chan # <<>> /\ Head(chan) = chan[1]
    BY <1>1, <1>2, TailRow DEF HeadIs
  <1>4. ~Line(chan[1]) /\ ~Ending(chan[1])
    BY <1>1, <1>3, Marked DEF HeadIs, Line, Ending, Marks
  <1>5. Told(Tail(chan), wrote["out"], nread["out"], over, pump, cl.term)
    BY <1>2, <1>3, <1>4, ToldReceived
  <1>6. SessionsOK' /\ mem' \in [Sessions -> Rows]
    BY <1>1, SameSessions
  <1> QED BY <1>1, <1>2, <1>5, <1>6, ListenStep

(* A message, or the first terminal frame.                                  *)
LEMMA BodyStep ==
    ASSUME AgentsInv, BodyFrame
    PROVE  AgentsInv'
  <1> DEFINE f == Head(chan).frame
             c == IF f = "msg" THEN cl ELSE [cl EXCEPT !.term = f]
  <1>1. /\ Draining /\ Receive /\ signalled' = signalled /\ cl' = c
        /\ UNCHANGED <<rows, mem, files, verdict, touched, runs>>
        /\ chan # <<>> /\ Head(chan).stream = "out" /\ f \in {"msg"} \union Terminals
        /\ ~Violates(f)
    BY DEF BodyFrame, HeadIs
  <1>2. /\ cl \in Clients /\ chan \in Seq(Events) /\ cl.at = "drain"
        /\ Told(chan, wrote["out"], nread["out"], over, pump, cl.term)
        /\ cl.started => cl.est # "none"
        /\ cl.term # "none" => cl.started
    BY <1>1, DrainFacts
  <1>3. Head(chan) = chan[1]
    BY <1>1, <1>2, TailRow
  <1>4. f \notin ProviderIds
    BY <1>1, AgentsBounds DEF Terminals
  <1>5. cl.term = "none" /\ cl.started
    BY <1>1, <1>4 DEF Violates
  <1>6. /\ c \in Clients /\ c.at = "drain" /\ c.op = cl.op /\ c.sess = cl.sess
        /\ c.started /\ c.est # "none"
    BY <1>1, <1>2, <1>5 DEF Clients
  <1>7. Told(Tail(chan), wrote["out"], nread["out"], over, pump, c.term)
    <2>1. CASE f = "msg"
      <3>1. ~Ending(chan[1])
        BY <1>3, <2>1, Marked DEF Ending
      <3> QED BY <1>1, <1>2, <1>3, <1>5, <2>1, <3>1, ToldReceived
    <2>2. CASE f # "msg"
      <3>1. c.term = chan[1].frame /\ f \in Terminals
        BY <1>1, <1>2, <1>3, <2>2 DEF Clients
      <3> HIDE DEF c
      <3> QED BY <1>1, <1>2, <1>3, <1>5, <3>1, ToldTerminal
    <2> QED BY <2>1, <2>2
  <1>8. SessionsOK' /\ mem' \in [Sessions -> Rows]
    BY <1>1, SameSessions
  <1> HIDE DEF c
  <1> QED BY <1>1, <1>6, <1>7, <1>8, ListenStep

(* session_started: the Session of the row is bound.                        *)
LEMMA EstablishStep ==
    ASSUME AgentsInv, Establish
    PROVE  AgentsInv'
  <1> DEFINE f == Head(chan).frame
             k == cl.sess
             m == IF cl.op = "resume" THEN [mem[k] EXCEPT !.st = "ACTIVE"]
                  ELSE [rows[k] EXCEPT !.st = "ACTIVE", !.pid = f]
  <1>1. /\ Draining /\ Receive /\ mem' = [mem EXCEPT ![k] = m]
        /\ UNCHANGED <<rows, files, touched, runs>>
        /\ chan # <<>> /\ Head(chan).stream = "out" /\ f \in ProviderIds
        /\ ~Violates(f)
    BY DEF Establish, HeadIs
  <1>2. /\ SupTypes /\ AgentTypes /\ SessionsOK /\ cl \in Clients /\ cl.at = "drain"
        /\ chan \in Seq(Events) /\ Running /\ verdict = "none"
        /\ Told(chan, wrote["out"], nread["out"], over, pump, cl.term)
        /\ k \in Sessions /\ k <= runs /\ rows[k] \in Rows /\ mem[k] \in Rows
        /\ rows[k].st \notin Ended
    BY <1>1, DrainFacts DEF Running
  <1>3. Head(chan) = chan[1]
    BY <1>1, <1>2, TailRow
  <1>4. cl.term = "none" /\ f # "none" /\ f \notin Terminals
    BY <1>1, Marked DEF Violates
  <1>5. m \in Rows /\ (m.pid # "none" => m.prov = rows[k].prov)
    <2>1. mem[k].pid # "none" => mem[k].prov = rows[k].prov
      BY <1>2 DEF SessionsOK, SessionOK
    <2> HIDE DEF k
    <2> QED BY <1>1, <1>2, <2>1 DEF Rows
  <1>6. /\ files' \in [Sessions -> SUBSET (Ended \union {"bundle"})]
        /\ \A s \in Sessions : files[s] \subseteq files'[s]
    BY <1>1, <1>2 DEF AgentTypes
  <1> HIDE DEF m
  <1>7. SessionsOK' /\ mem' \in [Sessions -> Rows]
    BY <1>1, <1>2, <1>5, <1>6, MemoryStep
  <1>8. ~Ending(chan[1])
    BY <1>1, <1>3, <1>4, AgentsBounds DEF Ending
  <1>9. Told(Tail(chan), wrote["out"], nread["out"], over, pump, cl.term)
    BY <1>1, <1>2, <1>4, <1>8, ToldReceived
  <1>10. CASE cl.op = "bootstrap"
    <2> DEFINE c == [cl EXCEPT !.started = TRUE, !.est = f, !.at = "record"]
    <2>1. cl' = c /\ verdict' = "bound" /\ Terminate
      BY <1>10 DEF Establish
    <2>2. c \in Clients /\ c.at = "record" /\ c.sess = cl.sess /\ c.op = "bootstrap"
      BY <1>1, <1>2, <1>10 DEF Clients
    <2> HIDE DEF c
    <2>3. SupTypes'
      BY <1>1, <1>2, <2>1, ReceiveStep DEF Terminate, SupTypes
    <2>4. AgentTypes'
      BY <1>1, <1>2, <1>7, <2>1, <2>2 DEF AgentTypes
    <2>5. Evidence'
      BY <1>1, <1>2, <1>7, <2>1, <2>2
         DEF SessionsOK, Evidence, ClientOK, Draining, Running, Recorded
    <2>6. Heard' /\ Reaped' /\ JudgedOnWholeOutput' /\ PassedIsCurrent'
      BY <2>1, <2>2 DEF Heard, Reaped, Followed, Draining, JudgedOnWholeOutput, PassedIsCurrent
    <2> QED BY <2>3, <2>4, <2>5, <2>6 DEF AgentsInv
  <1>11. CASE cl.op # "bootstrap"
    <2> DEFINE c == [cl EXCEPT !.started = TRUE, !.est = f, !.at = cl.at]
    <2>1. cl' = c /\ verdict' = verdict /\ signalled' = signalled
      BY <1>11 DEF Establish
    <2>2. /\ c \in Clients /\ c.at = "drain" /\ c.sess = cl.sess /\ c.op = cl.op
          /\ c.started /\ c.est = f /\ c.term = cl.term
      BY <1>1, <1>2 DEF Clients
    <2> HIDE DEF c
    <2> QED BY <1>1, <1>4, <1>7, <1>9, <2>1, <2>2, ListenStep
  <1> QED BY <1>10, <1>11

(* The channel is closed: everything written was read and received.         *)
LEMMA AllHeard ==
    ASSUME AgentsInv, Draining, ChannelClosed
    PROVE  /\ cl.term # "none" => Last(wrote["out"]) = cl.term
           /\ cl.term = "none" => Range(wrote["out"]) \cap Terminals = {}
  <1>1. /\ Told(chan, wrote["out"], nread["out"], over, pump, cl.term)
        /\ SupTypes /\ cl.at = "drain"
    BY DrainFacts
  <1>2. /\ pump["out"] = "done" /\ nread["out"] = Len(wrote["out"]) /\ chan = <<>>
        /\ wrote["out"] \in Seq(Frames)
    BY <1>1 DEF AgentsInv, Reaped, Followed, Piped, ChannelClosed, Streams, SupTypes
  <1>3. DOMAIN chan = {} /\ DOMAIN wrote["out"] = 1 .. Len(wrote["out"])
    BY <1>2, LenProperties, EmptySeq
  <1>4. ~Later(chan, 0) /\ ~Dropped(over, pump)
    BY <1>2, <1>3 DEF Later, Dropped
  <1>5. cl.term # "none" => Last(wrote["out"]) = cl.term
    BY <1>1, <1>2, <1>4 DEF Told, LastRead, Last
  <1>6. cl.term = "none" => \A i \in DOMAIN wrote["out"] : wrote["out"][i] \notin Terminals
    BY <1>1, <1>2, <1>3, <1>4 DEF Told
  <1>7. cl.term = "none" => Range(wrote["out"]) \cap Terminals = {}
    BY <1>6 DEF Range
  <1> QED BY <1>5, <1>7

(* The stream ended: the terminal frame decides, or its absence.            *)
LEMMA EndedStep ==
    ASSUME AgentsInv, StreamEnded
    PROVE  AgentsInv'
  <1>1. /\ Draining /\ ChannelClosed /\ UNCHANGED <<rows, touched, runs>>
        /\ UNCHANGED supVars
    BY DEF StreamEnded
  <1>2. /\ SupTypes /\ AgentTypes /\ cl \in Clients /\ Running
        /\ cl.started => cl.est # "none"
        /\ cl.term # "none" => cl.started
        /\ cl.at = "drain"
        /\ cl.term # "none" => Last(wrote["out"]) = cl.term
        /\ cl.term = "none" => Range(wrote["out"]) \cap Terminals = {}
    BY <1>1, DrainFacts, AllHeard
  <1>3. SupTypes' /\ wrote' = wrote
    BY <1>1, <1>2 DEF supVars, SupTypes
  <1>4. CASE cl.term = "none" \/ cl.op = "bootstrap"
    <2> DEFINE c == [cl EXCEPT !.at = "idle"]
    <2>1. cl' = c /\ verdict' = "crashed" /\ Settle("FAILED")
      BY <1>4 DEF StreamEnded, Return
    <2>2. c \in Clients /\ c.at = "idle" /\ c.op = cl.op
      BY <1>2 DEF Clients
    <2> HIDE DEF c
    <2>3. /\ SessionsOK' /\ mem' \in [Sessions -> Rows]
          /\ files' \in [Sessions -> SUBSET (Ended \union {"bundle"})]
      BY <1>1, <2>1, SettleStep
    <2>4. AgentTypes'
      BY <1>1, <1>2, <2>1, <2>2, <2>3 DEF AgentTypes
    <2>5. Evidence' /\ Heard' /\ Reaped'
      BY <2>1, <2>2, <2>3 DEF SessionsOK, Evidence, ClientOK, Draining, Heard, Reaped, Followed
    <2>6. JudgedOnWholeOutput' /\ PassedIsCurrent'
      BY <1>2, <1>3, <1>4, <2>1, <2>2 DEF JudgedOnWholeOutput, PassedIsCurrent
    <2> QED BY <1>3, <2>4, <2>5, <2>6 DEF AgentsInv
  <1>5. CASE cl.term # "none" /\ cl.op # "bootstrap"
    <2> DEFINE c == [cl EXCEPT !.at = "record"]
               status == IF cl.term = "done" THEN "COMPLETED" ELSE "FAILED"
    <2>1. cl' = c /\ verdict' = status /\ Settle(status)
      BY <1>5 DEF StreamEnded
    <2>2. c \in Clients /\ c.at = "record" /\ c.op = cl.op /\ c.sess = cl.sess
      BY <1>2 DEF Clients
    <2>3. /\ status \in {"COMPLETED", "FAILED"}
          /\ status = "COMPLETED" => Last(wrote["out"]) = "done"
      BY <1>2, <1>5
    <2> HIDE DEF c, status
    <2>4. /\ SessionsOK' /\ mem' \in [Sessions -> Rows]
          /\ files' \in [Sessions -> SUBSET (Ended \union {"bundle"})]
          /\ status \in files'[cl.sess] /\ mem'[cl.sess].st = status
      BY <1>1, <1>2, <1>5, <2>1, <2>3, SettleStep
    <2>5. AgentTypes'
      BY <1>1, <1>2, <2>1, <2>2, <2>4 DEF AgentTypes
    <2>6. Running' /\ Recorded'
      BY <1>1, <1>2, <2>1, <2>2, <2>3, <2>4 DEF Running, Recorded
    <2>7. Evidence' /\ Heard' /\ Reaped'
      BY <2>1, <2>2, <2>4, <2>6 DEF SessionsOK, Evidence, ClientOK, Draining, Heard, Reaped, Followed
    <2>8. JudgedOnWholeOutput' /\ PassedIsCurrent'
      BY <1>3, <2>1, <2>2, <2>3 DEF JudgedOnWholeOutput, PassedIsCurrent
    <2> QED BY <1>3, <2>5, <2>7, <2>8 DEF AgentsInv
  <1> QED BY <1>4, <1>5

-----------------------------------------------------------------------------
(* Starting, restarting and recording                                       *)

(* A fresh process.                                                         *)
LEMMA LaunchStep ==
    ASSUME NEW timed \in BOOLEAN, Launch(timed)
    PROVE  /\ SupTypes' /\ Piped' /\ Reasons'
           /\ Told(chan', wrote'["out"], nread'["out"], over', pump', "none")
  <1> DEFINE e == Event("out", "started")
  <1>1. "out" \in Streams /\ "started" \in Marks /\ "started" \notin Frames
    BY Marked DEF Streams, Marks
  <1>2. e \in Events /\ e.frame \notin Frames
    BY <1>1, EventIn
  <1> HIDE DEF e
  <1>3. /\ child' = "alive" /\ orphan' = FALSE /\ chan' = <<e>>
        /\ wrote' = [s \in Streams |-> <<>>] /\ nread' = [s \in Streams |-> 0]
        /\ pump' = [s \in Streams |-> "reading"] /\ over' = [s \in Streams |-> FALSE]
        /\ fin' = "waiting" /\ fact' = "none" /\ signalled' = FALSE
    BY DEF Launch, e
  <1>4. SupTypes'
    <2>1. <<e>> \in Seq(Events) /\ <<>> \in Seq(Frames)
      BY <1>2
    <2>2. /\ wrote' \in [Streams -> Seq(Frames)] /\ nread' \in [Streams -> Nat]
          /\ pump' \in [Streams -> {"reading", "eof", "done"}]
          /\ over' \in [Streams -> BOOLEAN]
      BY <1>3, <2>1
    <2> QED BY <1>3, <2>1, <2>2 DEF SupTypes
  <1>5. Piped'
    <2>1. \A s \in Streams : /\ nread'[s] = 0 /\ wrote'[s] = <<>> /\ Len(wrote'[s]) = 0
                             /\ pump'[s] = "reading"
      BY <1>3
    <2> QED BY <1>3, <2>1 DEF Piped
  <1>6. Reasons'
    BY <1>3 DEF Reasons
  <1>7. /\ nread'["out"] = 0 /\ \A i \in DOMAIN chan' : chan'[i] = e
    BY <1>1, <1>3
  <1>8. Told(chan', wrote'["out"], nread'["out"], over', pump', "none")
    BY <1>2, <1>7 DEF Told
  <1> QED BY <1>4, <1>5, <1>6, <1>8

(* No process.                                                              *)
LEMMA ForgetStep ==
    ASSUME Forget
    PROVE  SupTypes'
  BY EmptySeq DEF Forget, SupTypes

(* A client that is not at work on anything, or only about to record.       *)
LEMMA RestStep ==
    ASSUME SupTypes', AgentTypes', SessionsOK', cl'.at = "idle",
           verdict' \in {"none", "error"}
    PROVE  AgentsInv'
  <1>1. Evidence' /\ Heard' /\ Reaped'
    BY DEF SessionsOK, Evidence, ClientOK, Draining, Heard, Reaped, Followed
  <1>2. JudgedOnWholeOutput' /\ PassedIsCurrent'
    BY DEF JudgedOnWholeOutput, PassedIsCurrent
  <1> QED BY <1>1, <1>2 DEF AgentsInv

(* What a command that starts a run sees.                                   *)
LEMMA IdleFacts ==
    ASSUME AgentsInv
    PROVE  /\ SupTypes /\ AgentTypes /\ SessionsOK /\ runs \in Nat
           /\ Idle => /\ runs + 1 \in Sessions /\ runs + 1 \in 0 .. MaxRuns
                      /\ rows[runs + 1] \in Rows /\ rows[runs + 1].st \notin Ended
  <1>1. SupTypes /\ AgentTypes /\ SessionsOK /\ runs \in Nat /\ MaxRuns \in Nat
    BY AgentsBounds DEF AgentsInv, AgentTypes, Evidence, SessionsOK
  <1>2. Idle => runs + 1 \in Sessions /\ runs + 1 \in 0 .. MaxRuns
    BY <1>1 DEF Idle, Sessions
  <1>3. Idle => rows[runs + 1] \in Rows /\ rows[runs + 1].st \in {"none", "STARTING"}
    BY <1>1, <1>2 DEF AgentTypes, SessionsOK, SessionOK
  <1> QED BY <1>1, <1>2, <1>3 DEF Ended

(* A client that begins to listen.                                          *)
LEMMA BeginStep ==
    ASSUME AgentsInv, Idle, NEW op \in {"start", "bootstrap", "resume", "verify"}, NEW s,
           s \in 0 .. MaxRuns, Begin(op, s), NEW timed \in BOOLEAN, Launch(timed),
           SessionsOK', rows' \in [Sessions -> Rows], UNCHANGED <<mem, files>>,
           op # "verify" => s \in 1 .. runs' /\ rows'[s].st \notin Ended
    PROVE  AgentsInv'
  <1> DEFINE c == [IdleClient EXCEPT !.op = op, !.at = "drain", !.sess = s]
  <1>1. cl' = c /\ verdict' = "none" /\ touched' = FALSE /\ runs' = runs + 1
    BY DEF Begin
  <1>2. /\ c \in Clients /\ c.at = "drain" /\ c.op = op /\ c.sess = s
        /\ c.term = "none" /\ c.started = FALSE
    BY DEF IdleClient, Clients
  <1> HIDE DEF c
  <1>3. /\ SupTypes' /\ Piped' /\ Reasons'
        /\ Told(chan', wrote'["out"], nread'["out"], over', pump', "none")
    BY LaunchStep
  <1>4. AgentTypes'
    BY <1>1, <1>2, IdleFacts DEF AgentTypes
  <1>5. Heard' /\ Reaped'
    BY <1>1, <1>2, <1>3 DEF Heard, Reaped
  <1>6. Evidence'
    BY <1>1, <1>2 DEF SessionsOK, Evidence, ClientOK, Draining, Running
  <1>7. JudgedOnWholeOutput' /\ PassedIsCurrent'
    BY <1>1, <1>2 DEF JudgedOnWholeOutput, PassedIsCurrent
  <1> QED BY <1>3, <1>4, <1>5, <1>6, <1>7 DEF AgentsInv

(* The row of a run is dispatched.                                          *)
LEMMA DispatchRow ==
    ASSUME AgentsInv, Idle, rows' = [rows EXCEPT ![runs + 1].st = "STARTING"],
           runs' = runs + 1, UNCHANGED <<mem, files>>
    PROVE  /\ SessionsOK' /\ rows' \in [Sessions -> Rows]
           /\ runs + 1 \in 0 .. MaxRuns /\ runs + 1 \in 1 .. runs'
           /\ rows'[runs + 1].st \notin Ended
  <1> DEFINE k == runs + 1
             r == [rows[k] EXCEPT !.st = "STARTING"]
  <1>1. /\ AgentTypes /\ SessionsOK /\ k \in Sessions /\ k \in 0 .. MaxRuns /\ runs \in Nat
        /\ rows[k] \in Rows /\ rows[k].st \notin Ended
    BY IdleFacts
  <1>2. /\ r \in Rows /\ r.prov = rows[k].prov /\ r.sup = rows[k].sup /\ r.st = "STARTING"
    BY <1>1 DEF Rows
  <1>3. rows' = [rows EXCEPT ![k] = r]
    OBVIOUS
  <1>4. r.st \notin Ended /\ runs' = k /\ k >= runs /\ k \in 1 .. k /\ ~(k > k)
    BY <1>1, <1>2 DEF Ended
  <1> HIDE DEF k, r
  <1>5. runs' \in 0 .. MaxRuns /\ runs' >= runs /\ ~(k > runs')
    BY <1>1, <1>4
  <1>6. SessionsOK' /\ rows' \in [Sessions -> Rows] /\ rows'[k] = r
    BY <1>1, <1>2, <1>3, <1>4, <1>5, RowStep
  <1> QED BY <1>1, <1>4, <1>6 DEF k

(* A run is started, refused, or resumed.                                   *)
LEMMA StartStep ==
    ASSUME AgentsInv,
           \/ \E op \in {"start", "bootstrap"} : StartRun(op)
           \/ StartRefused \/ StartVerification
           \/ \E s \in Sessions : ResumeRun(s)
    PROVE  AgentsInv'
  <1>0. SupTypes /\ AgentTypes /\ SessionsOK
    BY IdleFacts
  <1>1. ASSUME NEW op \in {"start", "bootstrap"}, StartRun(op)
        PROVE  AgentsInv'
    <2>1. /\ Idle /\ Begin(op, runs + 1) /\ Launch(FALSE) /\ UNCHANGED <<mem, files>>
          /\ rows' = [rows EXCEPT ![runs + 1].st = "STARTING"] /\ runs' = runs + 1
      BY <1>1 DEF StartRun, Begin
    <2>2. /\ SessionsOK' /\ rows' \in [Sessions -> Rows]
          /\ runs + 1 \in 0 .. MaxRuns /\ runs + 1 \in 1 .. runs'
          /\ rows'[runs + 1].st \notin Ended
      BY <2>1, DispatchRow
    <2> DEFINE no == FALSE
    <2>3. no \in BOOLEAN /\ Launch(no)
      BY <2>1
    <2> HIDE DEF no
    <2> QED BY <2>1, <2>2, <2>3, BeginStep
  <1>2. CASE StartRefused
    <2>1. /\ Idle /\ UNCHANGED <<mem, files, touched>> /\ Forget
          /\ rows' = [rows EXCEPT ![runs + 1].st = "STARTING"] /\ runs' = runs + 1
          /\ cl' = IdleClient /\ verdict' = "error"
      BY <1>2 DEF StartRefused
    <2>2. SessionsOK' /\ rows' \in [Sessions -> Rows] /\ runs' \in 0 .. MaxRuns
      BY <2>1, DispatchRow
    <2>3. IdleClient \in Clients /\ IdleClient.at = "idle"
      BY AgentsBounds DEF IdleClient, Clients
    <2>4. AgentTypes'
      BY <1>0, <2>1, <2>2, <2>3 DEF AgentTypes
    <2> QED BY <2>1, <2>2, <2>3, <2>4, ForgetStep, RestStep
  <1>3. CASE StartVerification
    <2>1. /\ Idle /\ Begin("verify", 0) /\ Launch(TRUE) /\ UNCHANGED <<rows, mem, files>>
          /\ runs' = runs + 1
      BY <1>3 DEF StartVerification, Begin
    <2>2. SessionsOK' /\ rows' \in [Sessions -> Rows]
      <3>1. \A s \in Sessions : s \in Nat /\ runs \in Nat
        BY AgentsBounds DEF Sessions, AgentsInv, AgentTypes
      <3>2. \A s \in Sessions : s > runs' => s > runs
        BY <2>1, <3>1
      <3> QED BY <1>0, <2>1, <3>2 DEF SessionsOK, EndedHasEvidence, SessionOK, AgentTypes
    <2>3. 0 \in 0 .. MaxRuns
      BY AgentsBounds
    <2> DEFINE yes == TRUE
               zero == 0
    <2>4. yes \in BOOLEAN /\ Launch(yes) /\ Begin("verify", zero) /\ zero \in 0 .. MaxRuns
      BY <2>1, <2>3
    <2> HIDE DEF yes, zero
    <2> QED BY <2>1, <2>2, <2>4, BeginStep
  <1>4. ASSUME NEW s \in Sessions, ResumeRun(s)
        PROVE  AgentsInv'
    <2>1. /\ Idle /\ Resumable(s) /\ Begin("resume", s) /\ Launch(FALSE)
          /\ UNCHANGED <<rows, mem, files>> /\ runs' = runs + 1
      BY <1>4 DEF ResumeRun, Begin
    <2>2. s \in Nat /\ s >= 1 /\ runs \in Nat /\ s \in 0 .. MaxRuns
      BY AgentsBounds DEF Sessions, AgentsInv, AgentTypes
    <2>3. ~(s > runs) /\ rows[s].st \notin Ended
      BY <1>0, <2>1 DEF SessionsOK, SessionOK, Resumable
    <2>4. s \in 1 .. runs' /\ rows'[s].st \notin Ended
      BY <2>1, <2>2, <2>3
    <2>5. SessionsOK' /\ rows' \in [Sessions -> Rows]
      <3>1. \A t \in Sessions : t \in Nat
        BY AgentsBounds DEF Sessions
      <3>2. \A t \in Sessions : t > runs' => t > runs
        BY <2>1, <2>2, <3>1
      <3> QED BY <1>0, <2>1, <3>2 DEF SessionsOK, EndedHasEvidence, SessionOK, AgentTypes
    <2> DEFINE no == FALSE
    <2>6. no \in BOOLEAN /\ Launch(no)
      BY <2>1
    <2> HIDE DEF no
    <2> QED BY <2>1, <2>2, <2>4, <2>5, <2>6, BeginStep
  <1> QED BY <1>1, <1>2, <1>3, <1>4

(* What the client knows of a run it is about to record.                    *)
LEMMA RecordFacts ==
    ASSUME AgentsInv, cl.at \in {"lost", "record"}
    PROVE  /\ SupTypes /\ AgentTypes /\ SessionsOK /\ cl \in Clients
           /\ Running /\ (cl.at = "record" => Recorded)
           /\ cl.at = "lost" => /\ "bundle" \in files[cl.sess] /\ mem[cl.sess].st = "LOST"
                                /\ mem[cl.sess].pid # "none"
           /\ cl.sess \in Sessions /\ cl.sess <= runs /\ runs \in Nat
           /\ rows[cl.sess] \in Rows /\ mem[cl.sess] \in Rows /\ rows[cl.sess].st \notin Ended
  <1>1. /\ SupTypes /\ AgentTypes /\ SessionsOK /\ cl \in Clients
        /\ Running /\ (cl.at = "record" => Recorded)
        /\ cl.at = "lost" => /\ "bundle" \in files[cl.sess] /\ mem[cl.sess].st = "LOST"
                             /\ mem[cl.sess].pid # "none"
    BY DEF AgentsInv, AgentTypes, Evidence, SessionsOK, ClientOK
  <1>2. cl.sess \in Sessions /\ cl.sess <= runs /\ runs \in Nat
    BY <1>1, AgentsBounds DEF Running, Sessions, AgentTypes
  <1> QED BY <1>1, <1>2 DEF AgentTypes, Running

(* resumeFallback: the Session is lost once its bundle exists.              *)
LEMMA FallbackStep ==
    ASSUME AgentsInv, NEW s \in Sessions, ResumeFallback(s)
    PROVE  AgentsInv'
  <1> DEFINE m == [mem[s] EXCEPT !.st = "LOST"]
             fs == files[s] \union {"bundle"}
             c == [IdleClient EXCEPT !.op = "resume", !.at = "lost", !.sess = s]
  <1>1. /\ Resumable(s) /\ mem' = [mem EXCEPT ![s] = m] /\ files' = [files EXCEPT ![s] = fs]
        /\ cl' = c /\ verdict' = "none" /\ Forget /\ UNCHANGED <<rows, touched, runs>>
    BY DEF ResumeFallback
  <1>2. AgentTypes /\ SessionsOK
    BY IdleFacts
  <1>3. s \in Nat /\ s >= 1 /\ runs \in Nat /\ s \in 0 .. MaxRuns
    BY AgentsBounds DEF Sessions, AgentsInv, AgentTypes
  <1>4. /\ mem[s].pid # "none" /\ ~(s > runs) /\ rows[s].st \notin Ended
        /\ mem[s].prov = rows[s].prov /\ mem[s] \in Rows
    BY <1>1, <1>2 DEF SessionsOK, SessionOK, Resumable, AgentTypes
  <1>5. m \in Rows /\ m.st = "LOST" /\ m.pid = mem[s].pid /\ m.prov = mem[s].prov
    BY <1>4 DEF Rows, Ended
  <1>6. /\ c \in Clients /\ c.at = "lost" /\ c.sess = s
    BY <1>3 DEF IdleClient, Clients
  <1>7. fs \in SUBSET (Ended \union {"bundle"}) /\ "bundle" \in fs /\ files[s] \subseteq fs
    BY <1>2 DEF AgentTypes
  <1> HIDE DEF m, fs, c
  <1>8. /\ files' \in [Sessions -> SUBSET (Ended \union {"bundle"})] /\ files'[s] = fs
        /\ \A t \in Sessions : files[t] \subseteq files'[t]
    BY <1>1, <1>2, <1>7 DEF AgentTypes
  <1>9. s <= runs
    BY <1>3, <1>4
  <1>10. SessionsOK' /\ mem' \in [Sessions -> Rows] /\ mem'[s] = m
    BY <1>1, <1>2, <1>4, <1>5, <1>8, <1>9, MemoryStep
  <1>11. SupTypes' /\ AgentTypes'
    BY <1>1, <1>2, <1>6, <1>8, <1>10, ForgetStep DEF AgentTypes
  <1>12. Running'
    BY <1>1, <1>3, <1>4, <1>6, <1>9 DEF Running
  <1>13. Evidence'
    BY <1>1, <1>4, <1>5, <1>6, <1>7, <1>8, <1>10, <1>12
       DEF SessionsOK, Evidence, ClientOK, Draining
  <1>14. Heard' /\ Reaped' /\ JudgedOnWholeOutput' /\ PassedIsCurrent'
    BY <1>1, <1>6 DEF Heard, Reaped, Followed, Draining, JudgedOnWholeOutput, PassedIsCurrent
  <1> QED BY <1>11, <1>13, <1>14 DEF AgentsInv

(* persistLostManifest: the manifest, then the result.                      *)
LEMMA ManifestStep ==
    ASSUME AgentsInv, PersistLostManifest
    PROVE  AgentsInv'
  <1> DEFINE k == cl.sess
             fs == files[k] \union {"LOST"}
             c == [cl EXCEPT !.at = "record"]
  <1>1. /\ cl.at = "lost" /\ files' = [files EXCEPT ![k] = fs] /\ cl' = c /\ verdict' = "lost"
        /\ UNCHANGED <<rows, mem, touched, runs>> /\ UNCHANGED supVars
    BY DEF PersistLostManifest
  <1>2. /\ SupTypes /\ AgentTypes /\ SessionsOK /\ cl \in Clients /\ Running
        /\ "bundle" \in files[k] /\ mem[k].st = "LOST" /\ mem[k].pid # "none"
        /\ k \in Sessions /\ k <= runs /\ mem[k] \in Rows /\ rows[k].st \notin Ended
    BY <1>1, RecordFacts
  <1>3. c \in Clients /\ c.at = "record" /\ c.sess = k /\ c.op = cl.op
    BY <1>2 DEF Clients
  <1>4. /\ fs \in SUBSET (Ended \union {"bundle"}) /\ {"LOST", "bundle"} \subseteq fs
        /\ files[k] \subseteq fs
    BY <1>2 DEF AgentTypes, Ended
  <1> HIDE DEF c, fs
  <1>5. /\ files' \in [Sessions -> SUBSET (Ended \union {"bundle"})] /\ files'[k] = fs
        /\ \A t \in Sessions : files[t] \subseteq files'[t]
    BY <1>1, <1>2, <1>4 DEF AgentTypes
  <1>6. mem' = [mem EXCEPT ![k] = mem[k]] /\ (mem[k].pid # "none" => mem[k].prov = rows[k].prov)
    BY <1>1, <1>2 DEF AgentTypes, SessionsOK, SessionOK
  <1> DEFINE m == mem[k]
  <1> HIDE DEF m
  <1>7. m \in Rows /\ mem' = [mem EXCEPT ![k] = m] /\ (m.pid # "none" => m.prov = rows[k].prov)
    BY <1>2, <1>6 DEF m
  <1>8. SessionsOK' /\ mem' \in [Sessions -> Rows]
    BY <1>1, <1>2, <1>5, <1>7, MemoryStep
  <1>9. SupTypes' /\ AgentTypes'
    BY <1>1, <1>2, <1>3, <1>5, <1>8 DEF AgentTypes, SupTypes, supVars
  <1>10. Running' /\ Recorded'
    BY <1>1, <1>2, <1>3, <1>4, <1>5 DEF Running, Recorded
  <1>11. Evidence'
    BY <1>1, <1>3, <1>8, <1>10 DEF SessionsOK, Evidence, ClientOK, Draining
  <1>12. Heard' /\ Reaped' /\ JudgedOnWholeOutput' /\ PassedIsCurrent'
    BY <1>1, <1>3 DEF Heard, Reaped, Followed, Draining, JudgedOnWholeOutput, PassedIsCurrent
  <1> QED BY <1>9, <1>11, <1>12 DEF AgentsInv

(* A Decision on a result: the client is done with it.                      *)
LEMMA DecidedStep ==
    ASSUME AgentsInv, cl.at = "record", cl' = [cl EXCEPT !.at = "idle"],
           UNCHANGED supVars, UNCHANGED <<mem, files, verdict, touched, runs>>,
           SessionsOK', rows' \in [Sessions -> Rows]
    PROVE  AgentsInv'
  <1>1. /\ SupTypes /\ AgentTypes /\ cl \in Clients /\ Recorded
    BY RecordFacts
  <1>2. cl' \in Clients /\ cl'.at = "idle" /\ cl'.op = cl.op
    BY <1>1 DEF Clients
  <1>3. SupTypes' /\ AgentTypes' /\ wrote' = wrote
    BY <1>1, <1>2 DEF SupTypes, supVars, AgentTypes
  <1>4. Evidence' /\ Heard' /\ Reaped'
    BY <1>2 DEF SessionsOK, Evidence, ClientOK, Draining, Heard, Reaped, Followed
  <1>5. JudgedOnWholeOutput'
    BY <1>2, <1>3 DEF AgentsInv, JudgedOnWholeOutput
  <1>6. PassedIsCurrent'
    BY <1>1 DEF PassedIsCurrent, Recorded
  <1> QED BY <1>3, <1>4, <1>5, <1>6 DEF AgentsInv

(* The row of a run that ended, or of a bootstrap that was bound.           *)
LEMMA RecordStep ==
    ASSUME AgentsInv, RecordRow \/ BindRow
    PROVE  AgentsInv'
  <1> DEFINE k == cl.sess
  <1>1. /\ cl.at = "record" /\ cl' = [cl EXCEPT !.at = "idle"] /\ UNCHANGED supVars
        /\ UNCHANGED <<mem, files, verdict, touched, runs>>
    BY DEF RecordRow, BindRow
  <1>2. /\ AgentTypes /\ SessionsOK /\ Recorded
        /\ k \in Sessions /\ k <= runs /\ runs \in Nat
        /\ rows[k] \in Rows /\ mem[k] \in Rows /\ rows[k].st \notin Ended
    BY <1>1, RecordFacts
  <1>3. PICK r \in Rows :
          /\ rows' = [rows EXCEPT ![k] = r]
          /\ r.prov = rows[k].prov /\ r.sup = rows[k].sup
          /\ r.st \in Ended => r.st \in files[k] /\ mem[k].st = r.st
    <2>1. CASE RecordRow
      <3> DEFINE r == [rows[k] EXCEPT !.pid = mem[k].pid, !.st = verdict]
      <3>1. /\ verdict \in {"COMPLETED", "FAILED"}
            /\ rows' = [rows EXCEPT ![k].pid = mem[k].pid, ![k].st = verdict]
        BY <2>1 DEF RecordRow
      <3>2. rows' = [rows EXCEPT ![k] = r]
        BY <1>2, <3>1
      <3>3. /\ r \in Rows /\ r.st = verdict /\ r.prov = rows[k].prov /\ r.sup = rows[k].sup
        BY <1>2, <3>1 DEF Rows, Ended
      <3>4. verdict \in files[k] /\ mem[k].st = verdict
        BY <1>2, <3>1 DEF Recorded
      <3> HIDE DEF r
      <3> QED BY <3>2, <3>3, <3>4
    <2>2. CASE BindRow
      <3> DEFINE r == [rows[k] EXCEPT !.pid = mem[k].pid]
      <3>1. rows' = [rows EXCEPT ![k] = r]
        BY <2>2 DEF BindRow
      <3>2. /\ r \in Rows /\ r.st = rows[k].st /\ r.prov = rows[k].prov /\ r.sup = rows[k].sup
        BY <1>2 DEF Rows
      <3> HIDE DEF r
      <3> QED BY <1>2, <3>1, <3>2
    <2> QED BY <2>1, <2>2
  <1>4. runs' \in 0 .. MaxRuns /\ runs' >= runs /\ ~(k > runs')
    BY <1>1, <1>2, AgentsBounds DEF AgentTypes, Sessions
  <1> HIDE DEF k
  <1>5. SessionsOK' /\ rows' \in [Sessions -> Rows]
    BY <1>1, <1>2, <1>3, <1>4, RowStep
  <1> QED BY <1>1, <1>5, DecidedStep

(* The row of a lost Session, and its successor's.                          *)
LEMMA LostStep ==
    ASSUME AgentsInv, NEW succeeded \in BOOLEAN, RecordLost(succeeded)
    PROVE  AgentsInv'
  <1> DEFINE k == cl.sess
             r == [rows[k] EXCEPT !.st = "LOST"]
             lost == [rows EXCEPT ![k] = r]
             n == runs + 1
             new == [st |-> "STARTING", pid |-> "none", prov |-> mem[k].prov + 1, sup |-> k]
  <1>1. /\ cl.at = "record" /\ verdict = "lost" /\ cl' = [cl EXCEPT !.at = "idle"]
        /\ UNCHANGED supVars /\ UNCHANGED <<mem, files, verdict, touched, runs>>
        /\ \/ rows' = lost
           \/ runs < MaxRuns /\ rows[n].st = "none" /\ rows' = [lost EXCEPT ![n] = new]
    BY DEF RecordLost
  <1>2. /\ AgentTypes /\ SessionsOK /\ Recorded
        /\ k \in Sessions /\ k <= runs /\ runs \in Nat
        /\ rows[k] \in Rows /\ mem[k] \in Rows /\ rows[k].st \notin Ended
    BY <1>1, RecordFacts
  <1>3. /\ {"LOST", "bundle"} \subseteq files[k] /\ mem[k].st = "LOST"
        /\ mem[k].prov = rows[k].prov
    BY <1>1, <1>2 DEF Recorded, SessionsOK, SessionOK
  <1>4. r \in Rows /\ r.prov = rows[k].prov /\ r.sup = rows[k].sup /\ r.st = "LOST"
    BY <1>2 DEF Rows, Ended
  <1>5. new \in Rows /\ new.st = "STARTING" /\ new.pid = "none" /\ new.prov = rows[k].prov + 1 /\ new.sup = k
    BY <1>2, <1>3, AgentsBounds DEF Rows, Sessions
  <1>6. runs' \in 0 .. MaxRuns /\ runs' >= runs /\ ~(k > runs')
    BY <1>1, <1>2, AgentsBounds DEF AgentTypes, Sessions
  <1> HIDE DEF r, new, k
  <1>7. CASE rows' = lost
    <2>1. SessionsOK' /\ rows' \in [Sessions -> Rows]
      BY <1>1, <1>2, <1>3, <1>4, <1>6, <1>7, RowStep
    <2> QED BY <1>1, <2>1, DecidedStep
  <1>8. CASE runs < MaxRuns /\ rows[n].st = "none" /\ rows' = [lost EXCEPT ![n] = new]
    <2>1. n \in Sessions /\ n # k /\ n > runs
      BY <1>2, <1>8, AgentsBounds DEF Sessions
    <2>2. /\ rows' \in [Sessions -> Rows] /\ rows'[k] = r /\ rows'[n] = new
          /\ \A s \in Sessions \ {k, n} : rows'[s] = rows[s]
      BY <1>2, <1>4, <1>5, <1>8, <2>1 DEF AgentTypes
    <2>3. EndedHasEvidence'
      <3> SUFFICES ASSUME NEW s \in Sessions
                   PROVE  /\ rows'[s].st \in Ended => rows'[s].st \in files[s]
                          /\ rows'[s].sup # 0 =>
                               /\ rows'[rows'[s].sup].st = "LOST"
                               /\ "bundle" \in files[rows'[s].sup]
                               /\ rows'[s].prov = rows'[rows'[s].sup].prov + 1
        BY <1>1 DEF EndedHasEvidence
      <3>1. CASE s = n
        BY <1>3, <1>4, <1>5, <2>1, <2>2, <3>1 DEF Ended
      <3>2. CASE s # n
        <4>1. rows'[s].sup = rows[s].sup /\ rows'[s].prov = rows[s].prov
          BY <1>4, <2>2, <3>2
        <4>2. rows[s].sup \in 0 .. MaxRuns
          BY <1>2 DEF AgentTypes, Rows
        <4>3. rows[s].sup # 0 => rows[s].sup \in Sessions
          BY <4>2, AgentsBounds DEF Sessions
        <4>4. rows[s].sup # 0 =>
                /\ rows[rows[s].sup].st = "LOST" /\ "bundle" \in files[rows[s].sup]
                /\ rows[s].prov = rows[rows[s].sup].prov + 1
          BY <1>2 DEF SessionsOK, EndedHasEvidence
        <4>5. rows[s].sup # 0 => rows[s].sup # k /\ rows[s].sup # n
          BY <1>2, <1>8, <4>4 DEF Ended
        <4>6. rows'[s].st \in Ended => rows'[s].st \in files[s]
          BY <1>2, <1>3, <1>4, <2>2, <3>2 DEF SessionsOK, EndedHasEvidence
        <4> QED BY <2>2, <4>1, <4>3, <4>4, <4>5, <4>6
      <3> QED BY <3>1, <3>2
    <2>4. \A s \in Sessions : SessionOK(s)'
      <3> SUFFICES ASSUME NEW s \in Sessions PROVE SessionOK(s)'
        OBVIOUS
      <3>1. CASE s = n
        <4>1. mem[n].pid = "none"
          BY <1>2, <2>1 DEF SessionsOK, SessionOK
        <4> QED BY <1>1, <1>5, <2>2, <3>1, <4>1 DEF SessionOK, Ended
      <3>2. CASE s = k
        BY <1>1, <1>2, <1>3, <1>4, <1>6, <2>2, <3>2 DEF SessionOK
      <3>3. CASE s \notin {k, n}
        BY <1>1, <1>2, <2>2, <3>3 DEF SessionOK, SessionsOK
      <3> QED BY <3>1, <3>2, <3>3
    <2> QED BY <1>1, <2>2, <2>3, <2>4, DecidedStep DEF SessionsOK
  <1> QED BY <1>1, <1>7, <1>8

(* Hydrate: the Runtime is rebuilt from the rows.                           *)
LEMMA HydrateStep ==
    ASSUME AgentsInv, Hydrate
    PROVE  AgentsInv'
  <1>1. AgentTypes /\ SessionsOK
    BY IdleFacts
  <1>2. /\ mem' = [s \in Sessions |-> IF rows[s].st = "none" THEN NoSession ELSE rows[s]]
        /\ cl' = IdleClient /\ verdict' = "none" /\ touched' = FALSE /\ Forget
        /\ UNCHANGED <<rows, files, runs>>
    BY DEF Hydrate
  <1>3. NoSession \in Rows /\ NoSession.pid = "none" /\ NoSession.st = "none"
    BY AgentsBounds DEF NoSession, Rows
  <1>4. IdleClient \in Clients /\ IdleClient.at = "idle"
    BY AgentsBounds DEF IdleClient, Clients
  <1>5. \A s \in Sessions : /\ mem'[s] = IF rows[s].st = "none" THEN NoSession ELSE rows[s]
                            /\ rows[s] \in Rows
    BY <1>1, <1>2 DEF AgentTypes
  <1>6. mem' \in [Sessions -> Rows]
    BY <1>2, <1>3, <1>5
  <1>7. AgentTypes'
    BY <1>1, <1>2, <1>4, <1>6 DEF AgentTypes
  <1>8. EndedHasEvidence'
    BY <1>1, <1>2 DEF SessionsOK, EndedHasEvidence
  <1>9. \A s \in Sessions : SessionOK(s)'
    <2> SUFFICES ASSUME NEW s \in Sessions PROVE SessionOK(s)'
      OBVIOUS
    <2>1. s > runs => rows[s].st \in {"none", "STARTING"} /\ rows[s].pid = "none"
      BY <1>1 DEF SessionsOK, SessionOK
    <2> QED BY <1>2, <1>3, <1>5, <2>1 DEF SessionOK, Ended
  <1> QED BY <1>2, <1>4, <1>7, <1>8, <1>9, ForgetStep, RestStep DEF SessionsOK

-----------------------------------------------------------------------------
(* A verification command                                                   *)

(* What the Engine knows while the command is followed.                     *)
LEMMA VerifyFacts ==
    ASSUME AgentsInv, cl.at = "drain", cl.op = "verify"
    PROVE  /\ SupTypes /\ AgentTypes /\ cl \in Clients /\ Piped /\ Reasons
           /\ verdict = "none" /\ Evidence
  BY DEF AgentsInv, AgentTypes, Reaped, Followed

(* The worktree changes, or an event is read.                               *)
LEMMA VerifyStep ==
    ASSUME AgentsInv, Touch \/ VerifyEvent
    PROVE  AgentsInv'
  <1>1. /\ cl.at = "drain" /\ cl.op = "verify"
        /\ UNCHANGED <<rows, mem, files, cl, verdict, runs>>
        /\ UNCHANGED <<child, orphan, wrote, nread, pump, over, fin, fact, timer, ctx, signalled>>
    BY DEF Touch, VerifyEvent, Followed, supVars, agentVars, Receive
  <1>2. /\ SupTypes /\ AgentTypes /\ cl \in Clients /\ Piped /\ Reasons
        /\ verdict = "none" /\ Evidence
    BY <1>1, VerifyFacts
  <1>3. SupTypes' /\ touched' \in BOOLEAN
    <2>1. CASE Touch
      BY <1>2, <2>1 DEF Touch, supVars, SupTypes
    <2>2. CASE VerifyEvent
      BY <1>1, <1>2, <2>2, ReceiveStep DEF VerifyEvent, agentVars, AgentTypes, SupTypes
    <2> QED BY <2>1, <2>2
  <1>4. AgentTypes'
    BY <1>1, <1>2, <1>3 DEF AgentTypes
  <1>5. Reaped' /\ Heard'
    BY <1>1, <1>2 DEF Reaped, Followed, Heard, Draining, Piped, Gone, Exited, Reasons
  <1>6. Evidence'
    BY <1>1, <1>2 DEF Evidence, EndedHasEvidence, ClientOK, SessionOK, Draining, Running, Recorded
  <1>7. JudgedOnWholeOutput' /\ PassedIsCurrent'
    BY <1>1, <1>2 DEF JudgedOnWholeOutput, PassedIsCurrent
  <1> QED BY <1>3, <1>4, <1>5, <1>6, <1>7 DEF AgentsInv

(* Output that cannot be redacted is an error.                              *)
LEMMA UnredactableStep ==
    ASSUME AgentsInv, VerifyUnredactable
    PROVE  AgentsInv'
  <1>1. /\ cl.at = "drain" /\ Receive /\ signalled' \in BOOLEAN /\ Return("error") /\ SupTypes
        /\ UNCHANGED <<rows, mem, files, touched, runs>>
    BY DEF VerifyUnredactable, AgentsInv, SupTypes
  <1> QED BY <1>1, ReceiveStep, SameSessions, ReturnStep

(* The verdict: the exit fact and the worktree, once everything is read.    *)
LEMMA VerdictStep ==
    ASSUME AgentsInv, VerifyEnded
    PROVE  AgentsInv'
  <1>1. /\ cl.at = "drain" /\ cl.op = "verify" /\ ChannelClosed /\ UNCHANGED supVars
        /\ UNCHANGED <<rows, mem, files, touched, runs>>
        /\ \/ Return("error") \/ Return("rejected")
           \/ Return("passed") /\ fact = "ok" /\ ~touched
    BY DEF VerifyEnded
  <1>2. /\ SupTypes /\ AgentTypes /\ cl \in Clients /\ Piped /\ Reasons
        /\ verdict = "none" /\ Evidence
    BY <1>1, VerifyFacts
  <1>3. SupTypes' /\ SessionsOK' /\ mem' \in [Sessions -> Rows]
        /\ files' \in [Sessions -> SUBSET (Ended \union {"bundle"})]
    BY <1>1, <1>2, SameSessions DEF SupTypes, supVars
  <1>4. CASE Return("error") \/ Return("rejected")
    BY <1>1, <1>3, <1>4, ReturnStep
  <1>5. CASE Return("passed") /\ fact = "ok" /\ ~touched
    <2> DEFINE c == [cl EXCEPT !.at = "idle"]
    <2>1. cl' = c /\ verdict' = "passed"
      BY <1>5 DEF Return
    <2>2. c \in Clients /\ c.at = "idle" /\ c.op = "verify"
      BY <1>1, <1>2 DEF Clients
    <2> HIDE DEF c
    <2>3. AgentTypes'
      BY <1>1, <1>2, <2>1, <2>2 DEF AgentTypes
    <2>4. Evidence' /\ Heard' /\ Reaped' /\ JudgedOnWholeOutput'
      BY <1>3, <2>1, <2>2
         DEF SessionsOK, Evidence, ClientOK, Draining, Heard, Reaped, Followed, JudgedOnWholeOutput
    <2>5. \A s \in Streams : pump[s] = "done"
      BY <1>1, <1>2 DEF ChannelClosed, Piped
    <2>6. Gone /\ \A s \in Streams : nread[s] = Len(wrote[s])
      BY <1>2, <2>5 DEF Piped, Streams
    <2>7. nread = [s \in Streams |-> Len(wrote[s])]
      BY <1>2, <2>6 DEF SupTypes
    <2>8. PassedIsCurrent'
      <3>1. child = "ok" /\ ~signalled
        BY <1>2, <1>5 DEF Reasons
      <3>2. /\ child' = child /\ signalled' = signalled /\ touched' = touched
            /\ orphan' = orphan /\ nread' = nread /\ wrote' = wrote
        BY <1>1 DEF supVars
      <3> QED BY <1>5, <2>6, <2>7, <3>1, <3>2 DEF PassedIsCurrent, Gone, Exited
    <2> QED BY <1>3, <2>3, <2>4, <2>8 DEF AgentsInv
  <1> QED BY <1>1, <1>4, <1>5

-----------------------------------------------------------------------------
(* The specification                                                        *)

(* Nothing was started.                                                     *)
LEMMA InitStep ==
    ASSUME Init
    PROVE  AgentsInv
  <1>1. SupTypes
    BY EmptySeq DEF Init, SupInit, SupTypes
  <1>2. NoSession \in Rows /\ IdleClient \in Clients /\ IdleClient.at = "idle"
    BY AgentsBounds DEF NoSession, Rows, IdleClient, Clients
  <1>3. rows \in [Sessions -> Rows] /\ mem = rows /\ \A s \in Sessions : rows[s] = NoSession
    BY <1>2 DEF Init
  <1>4. cl = IdleClient /\ verdict = "none"
    BY DEF Init
  <1>5. AgentTypes
    <2>1. files \in [Sessions -> SUBSET (Ended \union {"bundle"})]
      BY DEF Init
    <2>2. touched \in BOOLEAN /\ runs = 0
      BY Zenon DEF Init
    <2>3. runs \in 0 .. MaxRuns
      BY <2>2, AgentsBounds
    <2> QED BY <1>2, <1>3, <1>4, <2>1, <2>2, <2>3 DEF AgentTypes
  <1>6. SessionsOK
    <2>1. /\ NoSession.st = "none" /\ NoSession.pid = "none" /\ NoSession.sup = 0
          /\ "none" \notin Ended
      BY DEF NoSession, Ended
    <2> QED BY <1>3, <2>1 DEF SessionsOK, EndedHasEvidence, SessionOK
  <1>7. Evidence /\ Heard /\ Reaped
    BY <1>2, <1>4, <1>6 DEF SessionsOK, Evidence, ClientOK, Draining, Heard, Reaped, Followed
  <1>8. JudgedOnWholeOutput /\ PassedIsCurrent
    BY <1>4 DEF JudgedOnWholeOutput, PassedIsCurrent
  <1> QED BY <1>1, <1>5, <1>7, <1>8 DEF AgentsInv

(* Every step keeps the invariant.                                          *)
LEMMA NextStep ==
    ASSUME AgentsInv, [Next]_vars
    PROVE  AgentsInv'
  <1>1. CASE Followed /\ (Environment(Spoken) \/ Goroutines \/ TimerFire) /\ UNCHANGED agentVars
    BY <1>1, ProcessStep
  <1>2. CASE \/ \E op \in {"start", "bootstrap"} : StartRun(op)
             \/ StartRefused \/ StartVerification
             \/ \E s \in Sessions : ResumeRun(s)
    BY <1>2, StartStep
  <1>3. CASE \E s \in Sessions : ResumeFallback(s)
    BY <1>3, FallbackStep
  <1>4. CASE ClientStep
    <2>1. CASE PersistLostManifest
      BY <2>1, ManifestStep
    <2>2. CASE SkipEvent
      BY <2>2, SkipStep
    <2>3. CASE BrokenStream \/ ProtocolViolation
      BY <2>3, FailureStep
    <2>4. CASE Establish
      BY <2>4, EstablishStep
    <2>5. CASE EstablishRefused \/ Interrupted
      BY <2>5, ErrorStep
    <2>6. CASE BodyFrame
      BY <2>6, BodyStep
    <2>7. CASE StreamEnded
      BY <2>7, EndedStep
    <2>8. CASE RecordRow \/ BindRow
      BY <2>8, RecordStep
    <2>9. CASE \E succeeded \in BOOLEAN : RecordLost(succeeded)
      BY <2>9, LostStep
    <2>10. CASE VerifyEvent
      BY <2>10, VerifyStep
    <2>11. CASE VerifyEnded
      BY <2>11, VerdictStep
    <2> QED BY <1>4, <2>1, <2>2, <2>3, <2>4, <2>5, <2>6, <2>7, <2>8, <2>9, <2>10, <2>11
            DEF ClientStep
  <1>5. CASE \E settled \in BOOLEAN : LocalFailure(settled)
    BY <1>5, ErrorStep
  <1>6. CASE VerifyUnredactable
    BY <1>6, UnredactableStep
  <1>7. CASE Touch
    BY <1>7, VerifyStep
  <1>8. CASE Hydrate
    BY <1>8, HydrateStep
  <1>9. CASE UNCHANGED vars
    <2>1. UNCHANGED supVars /\ UNCHANGED agentVars
      BY <1>9 DEF vars, supVars, agentVars
    <2>2. SupTypes' /\ AgentTypes' /\ Heard' /\ Reaped'
      BY <2>1 DEF AgentsInv, SupTypes, AgentTypes, Heard, Reaped, Followed, Draining, Piped,
                  Reasons, Gone, Exited, supVars, agentVars
    <2>3. Evidence'
      BY <2>1 DEF AgentsInv, Evidence, EndedHasEvidence, ClientOK, SessionOK, Draining, Running,
                  Recorded, agentVars
    <2>4. JudgedOnWholeOutput' /\ PassedIsCurrent'
      BY <2>1 DEF AgentsInv, JudgedOnWholeOutput, PassedIsCurrent, Gone, Exited,
                  supVars, agentVars
    <2> QED BY <2>2, <2>3, <2>4 DEF AgentsInv
  <1> QED BY <1>1, <1>2, <1>3, <1>4, <1>5, <1>6, <1>7, <1>8, <1>9 DEF Next

(* The types, what a client has heard of its process, and the evidence      *)
(* behind the Session rows, together inductive: at every moment of the      *)
(* Agent Runtime and of a verification.                                     *)
THEOREM AgentsInvariant == Spec => []AgentsInv
  <1>1. Init => AgentsInv
    BY InitStep
  <1>2. AgentsInv /\ [Next]_vars => AgentsInv'
    BY NextStep
  <1> QED BY <1>1, <1>2, PTL DEF Spec

(* A Provider run is judged on everything its process wrote: COMPLETED only *)
(* when the completion frame is the last line, a crash only when no line    *)
(* was terminal (claude/run.go afterReap, supervisor.finalize), whatever    *)
(* the budget and the capacity of the channel.                              *)
THEOREM WholeOutputDecides == Spec => []JudgedOnWholeOutput
  <1>1. AgentsInv => JudgedOnWholeOutput
    BY DEF AgentsInv
  <1> QED BY <1>1, AgentsInvariant, PTL

(* A verification passes only on a command nobody signalled, whose output   *)
(* was read to the end and whose descendants left the worktree alone        *)
(* (verify/engine.go Run).                                                  *)
THEOREM PassesAreCurrent == Spec => []PassedIsCurrent
  <1>1. AgentsInv => PassedIsCurrent
    BY DEF AgentsInv
  <1> QED BY <1>1, AgentsInvariant, PTL

(* A row that ended has its manifest, and a successor a lost predecessor    *)
(* with a bundle, across crashes and restarts of CFlow (drain.go            *)
(* settleWith, runtime.go resumeFallback and Hydrate).                      *)
THEOREM EndsHaveEvidence == Spec => []EndedHasEvidence
  <1>1. AgentsInv => EndedHasEvidence
    BY DEF AgentsInv, Evidence
  <1> QED BY <1>1, AgentsInvariant, PTL

=============================================================================
