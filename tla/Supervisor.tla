----------------------------- MODULE Supervisor -----------------------------
(***************************************************************************)
(* One supervised child process (process/supervisor.go over                 *)
(* process/os_adapter.go): two stream pumps that fill a bounded event       *)
(* channel, the goroutine that reaps the child and closes the channel, the  *)
(* timeout and the watcher that turns a cancelled context into a signal.    *)
(*                                                                          *)
(* The child, its descendants and the context are the environment: they     *)
(* write, exit and cancel when they like.  A signal is only a permission to *)
(* die: a child may ignore it or exit by itself.  Frames are abstract, each *)
(* of one unit of the output budget.                                        *)
(***************************************************************************)
EXTENDS Naturals, Sequences, SequencesExt

CONSTANTS
  MaxFrames,  \* bound: lines a child writes on each stream
  PipeCap,    \* bound: lines a pipe holds before its writer blocks
  Budget,     \* MaxOutputBytes, in frames
  EventCap    \* eventBufferSize

ASSUME SupervisorBounds ==
  /\ MaxFrames \in [{"out", "err"} -> Nat] /\ Budget \in Nat
  /\ PipeCap \in Nat \ {0} /\ EventCap \in Nat \ {0}

VARIABLES
  child,      \* the process: none, alive, or how it exited
  orphan,     \* a descendant still holds the write ends of the pipes
  wrote,      \* what was written on each stream
  nread,      \* how much of it the pump has read
  pump,       \* where the pump of each stream is
  over,       \* the pump has dropped output past the budget
  chan,       \* the event channel
  fin,        \* finalize: waiting, recorded (exit stored), closed
  fact,       \* the recorded Exit fact
  timer,      \* the timeout: off, armed, fired (timedOut set), done
  ctx,        \* the context the process was started with
  watch,      \* watchCancel: watching or done
  signalled   \* the live child was sent a signal

supVars == <<child, orphan, wrote, nread, pump, over, chan, fin, fact, timer,
             ctx, watch, signalled>>

Streams == {"out", "err"}

Exits == {"ok", "bad", "signal"}

Event(s, f) == [stream |-> s, frame |-> f]

HasRoom == Len(chan) < EventCap

Exited == child \in Exits

(* The read end of a pipe sees EOF when its last writer is gone.            *)
Gone == Exited /\ ~orphan

SupInit ==
  /\ child = "none" /\ orphan = FALSE
  /\ wrote = [s \in Streams |-> <<>>] /\ nread = [s \in Streams |-> 0]
  /\ pump = [s \in Streams |-> "done"] /\ over = [s \in Streams |-> FALSE]
  /\ chan = <<>> /\ fin = "closed" /\ fact = "none" /\ timer = "off"
  /\ ctx = "live" /\ watch = "done" /\ signalled = FALSE

(* The started event is sent before any pump runs: it is always first.      *)
Launch(timed) ==
  /\ child' = "alive" /\ orphan' = FALSE
  /\ wrote' = [s \in Streams |-> <<>>] /\ nread' = [s \in Streams |-> 0]
  /\ pump' = [s \in Streams |-> "reading"] /\ over' = [s \in Streams |-> FALSE]
  /\ chan' = <<Event("out", "started")>> /\ fin' = "waiting" /\ fact' = "none"
  /\ timer' = (IF timed THEN "armed" ELSE "off")
  /\ ctx' = "live" /\ watch' = "watching" /\ signalled' = FALSE

(* The process is no longer anyone's to follow.                             *)
Forget ==
  /\ child' = "none" /\ orphan' = FALSE
  /\ wrote' = [s \in Streams |-> <<>>] /\ nread' = [s \in Streams |-> 0]
  /\ pump' = [s \in Streams |-> "done"] /\ over' = [s \in Streams |-> FALSE]
  /\ chan' = <<>> /\ fin' = "closed" /\ fact' = "none" /\ timer' = "off"
  /\ ctx' = "live" /\ watch' = "done" /\ signalled' = FALSE

-----------------------------------------------------------------------------
(* The environment                                                          *)

(* A descendant that inherited the streams writes on them too.              *)
ChildWrite(s, f) ==
  /\ child = "alive" \/ orphan
  /\ Len(wrote[s]) < MaxFrames[s] /\ Len(wrote[s]) - nread[s] < PipeCap
  /\ wrote' = [wrote EXCEPT ![s] = Append(@, f)]
  /\ UNCHANGED <<child, orphan, nread, pump, over, chan, fin, fact, timer, ctx,
                 watch, signalled>>

ChildExit(how) ==
  /\ child = "alive"
  /\ how = "signal" => signalled
  /\ child' = how
  /\ orphan' \in BOOLEAN
  /\ UNCHANGED <<wrote, nread, pump, over, chan, fin, fact, timer, ctx, watch,
                 signalled>>

OrphanExit ==
  /\ orphan /\ orphan' = FALSE
  /\ UNCHANGED <<child, wrote, nread, pump, over, chan, fin, fact, timer, ctx,
                 watch, signalled>>

Cancel ==
  /\ child # "none" /\ ctx = "live"
  /\ ctx' = "cancelled"
  /\ UNCHANGED <<child, orphan, wrote, nread, pump, over, chan, fin, fact,
                 timer, watch, signalled>>

-----------------------------------------------------------------------------
(* The goroutines                                                           *)

(* A frame past the budget is counted and dropped; one within it waits for  *)
(* room in the channel.                                                     *)
PumpRead(s) ==
  /\ pump[s] = "reading" /\ nread[s] < Len(wrote[s])
  /\ nread' = [nread EXCEPT ![s] = @ + 1]
  /\ IF nread[s] >= Budget
       THEN over' = [over EXCEPT ![s] = TRUE] /\ chan' = chan
       ELSE /\ HasRoom
            /\ chan' = Append(chan, Event(s, wrote[s][nread[s] + 1]))
            /\ over' = over
  /\ UNCHANGED <<child, orphan, wrote, pump, fin, fact, timer, ctx, watch,
                 signalled>>

(* At EOF an overflow is reported before the EOF itself.                    *)
PumpEnd(s) ==
  /\ pump[s] = "eof" \/ (pump[s] = "reading" /\ nread[s] = Len(wrote[s]) /\ Gone)
  /\ HasRoom
  /\ LET overflow == pump[s] = "reading" /\ over[s] IN
     /\ chan' = Append(chan, Event(s, IF overflow THEN "overflow" ELSE "eof"))
     /\ pump' = [pump EXCEPT ![s] = IF overflow THEN "eof" ELSE "done"]
  /\ UNCHANGED <<child, orphan, wrote, nread, over, fin, fact, timer, ctx,
                 watch, signalled>>

(* Mutant: the exit status alone decides the fact.                          *)
ReapIgnoringTimeout ==
  /\ fin = "waiting" /\ Exited
  /\ fin' = "recorded"
  /\ fact' = (IF ctx = "cancelled" THEN "cancelled" ELSE child)
  /\ UNCHANGED <<child, orphan, wrote, nread, pump, over, chan, timer, ctx,
                 watch, signalled>>

(* finalize, first half: what ended the child outranks how it exited.       *)
Reap ==
  /\ fin = "waiting" /\ Exited
  /\ fin' = "recorded"
  /\ fact' = (CASE ctx = "cancelled"          -> "cancelled"
                [] timer \in {"fired", "done"} -> "timeout"
                [] OTHER                       -> child)
  /\ UNCHANGED <<child, orphan, wrote, nread, pump, over, chan, timer, ctx,
                 watch, signalled>>

StopTimer == timer' = IF timer = "armed" THEN "off" ELSE timer

(* Mutant: the channel is closed as soon as the child is reaped.            *)
CloseAtReap ==
  /\ fin = "recorded"
  /\ fin' = "closed" /\ watch' = "done" /\ StopTimer
  /\ UNCHANGED <<child, orphan, wrote, nread, pump, over, chan, fact, ctx,
                 signalled>>

(* finalize, second half: both pumps have finished.  The closed exit        *)
(* channel ends watchCancel, which stops the timer.                         *)
Close ==
  /\ fin = "recorded" /\ \A s \in Streams : pump[s] = "done"
  /\ fin' = "closed" /\ watch' = "done" /\ StopTimer
  /\ UNCHANGED <<child, orphan, wrote, nread, pump, over, chan, fact, ctx,
                 signalled>>

Terminate == signalled' = (signalled \/ child = "alive")

TimerFire ==
  /\ timer = "armed" /\ timer' = "fired"
  /\ UNCHANGED <<child, orphan, wrote, nread, pump, over, chan, fin, fact, ctx,
                 watch, signalled>>

TimerSignal ==
  /\ timer = "fired" /\ timer' = "done" /\ Terminate
  /\ UNCHANGED <<child, orphan, wrote, nread, pump, over, chan, fin, fact, ctx,
                 watch>>

WatchCancel ==
  /\ watch = "watching" /\ ctx = "cancelled"
  /\ watch' = "done" /\ StopTimer /\ Terminate
  /\ UNCHANGED <<child, orphan, wrote, nread, pump, over, chan, fin, fact, ctx>>

(* What a client of the process does to it.                                 *)
Receive ==
  /\ chan # <<>> /\ chan' = Tail(chan)
  /\ UNCHANGED <<child, orphan, wrote, nread, pump, over, fin, fact, timer, ctx,
                 watch>>

ChannelClosed == fin = "closed" /\ chan = <<>>

Environment(frames) ==
  \/ \E f \in frames : ChildWrite("out", f)
  \/ ChildWrite("err", "msg")
  \/ \E how \in Exits : ChildExit(how)
  \/ OrphanExit
  \/ Cancel

Goroutines ==
  \/ \E s \in Streams : PumpRead(s) \/ PumpEnd(s)
  \/ Reap
  \/ Close
  \/ TimerSignal
  \/ WatchCancel

=============================================================================
