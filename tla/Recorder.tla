------------------------------ MODULE Recorder ------------------------------
(***************************************************************************)
(* The episodic recorder of the agent (agent/internal/recorder) and the    *)
(* camera taps it records video from (agent/internal/cameras).             *)
(*                                                                         *)
(* Who runs: the RPC callbacks (start, stop, delete), one watch goroutine  *)
(* and one drainVideo goroutine per episode, one fanout goroutine per      *)
(* camera, and, when the agent starts, RecoverPartials.  Recorder.mu       *)
(* serialises start and stop; everything else interleaves with them.  The  *)
(* agent may be killed between any two steps, and finds its files again.   *)
(***************************************************************************)
EXTENDS Naturals

CONSTANTS
  Cam,        \* the cameras
  MaxEp,      \* episodes a behaviour may start
  Buf,        \* capacity of an episode's frame channel
  MaxCrashes  \* times the agent may die

Ep == 1 .. MaxEp
None == 0

VARIABLES
  \* the episodes directory, per episode
  partial,   \* <id>.mcap.partial: "no", "open" (no footer) or "closed"
  final,     \* <id>.mcap: "no", "open" or "closed"
  sidecar,   \* <id>.json can be read (a half-written one cannot)
  tmp,       \* <id>.mcap.recovering exists
  kept,      \* history: the episodes started and not deleted by the user
  \* the process
  ep,        \* Recorder.ep
  used,      \* episode ids handed out so far
  mu,        \* who holds Recorder.mu across steps: "free", "stop" or "watch"
  op,        \* where stopLocked is
  watch,     \* the watch goroutine of each episode
  drain,     \* the drainVideo goroutine of each episode
  vid,       \* buffered frames of each episode's channel
  closed,    \* ... and whether it is closed
  tap,       \* the episode whose tap each camera holds
  fan,       \* the tap that each fanout goroutine is about to call
  todo,      \* the partials RecoverPartials has still to look at
  rec,       \* where recoverPartial is: the step and the episode
  gone,      \* an episode whose container Delete has removed, not its sidecar
  crashes

fileVars == <<partial, final, sidecar, tmp, kept>>
goVars == <<watch, drain, vid, closed, tap, fan>>
bootVars == <<todo, rec>>
vars == <<fileVars, ep, used, mu, op, goVars, bootVars, gone, crashes>>

TypeOK ==
  /\ partial \in [Ep -> {"no", "open", "closed"}]
  /\ final \in [Ep -> {"no", "open", "closed"}]
  /\ sidecar \in [Ep -> BOOLEAN]
  /\ tmp \in [Ep -> BOOLEAN]
  /\ kept \subseteq Ep
  /\ ep \in Ep \cup {None}
  /\ used \in 0 .. MaxEp
  /\ mu \in {"free", "stop", "watch"}
  /\ op \in {"idle", "untap", "close", "footer", "rename", "sidecar"}
  /\ watch \in [Ep -> {"off", "run", "want"}]
  /\ drain \in [Ep -> {"off", "run"}]
  /\ vid \in [Ep -> 0 .. Buf]
  /\ closed \in [Ep -> BOOLEAN]
  /\ tap \in [Cam -> Ep \cup {None}]
  /\ fan \in [Cam -> Ep \cup {None}]
  /\ todo \subseteq Ep
  /\ rec \in [at : {"next", "copy", "rename", "remove", "sidecar"}, id : Ep \cup {None}]
  /\ gone \in Ep \cup {None}
  /\ crashes \in 0 .. MaxCrashes

Idle == [at |-> "next", id |-> None]
Serving == todo = {} /\ rec = Idle
Locked == mu # "free"

\* What a new process starts with.
Init ==
  /\ partial = [e \in Ep |-> "no"] /\ final = [e \in Ep |-> "no"]
  /\ sidecar = [e \in Ep |-> FALSE] /\ tmp = [e \in Ep |-> FALSE]
  /\ kept = {} /\ ep = None /\ used = 0 /\ mu = "free" /\ op = "idle"
  /\ watch = [e \in Ep |-> "off"] /\ drain = [e \in Ep |-> "off"]
  /\ vid = [e \in Ep |-> 0] /\ closed = [e \in Ep |-> FALSE]
  /\ tap = [c \in Cam |-> None] /\ fan = [c \in Cam |-> None]
  /\ todo = {} /\ rec = Idle /\ gone = None /\ crashes = 0

\* The process dies, whatever it was doing, and the agent starts again.
Die ==
  /\ crashes < MaxCrashes
  /\ crashes' = crashes + 1
  /\ ep' = None /\ mu' = "free" /\ op' = "idle"
  /\ watch' = [e \in Ep |-> "off"] /\ drain' = [e \in Ep |-> "off"]
  /\ vid' = [e \in Ep |-> 0] /\ closed' = [e \in Ep |-> FALSE]
  /\ tap' = [c \in Cam |-> None] /\ fan' = [c \in Cam |-> None]
  /\ todo' = {e \in Ep : partial[e] # "no"} /\ rec' = Idle /\ gone' = None
  /\ UNCHANGED <<fileVars, used>>

-----------------------------------------------------------------------------
(* StartEpisode.                                                            *)

\* The episode's file cannot be created, or is removed by abort; a writer that
\* cannot be set up leaves it behind.
StartFails ==
  /\ Serving /\ ~Locked /\ ep = None /\ used < MaxEp
  /\ used' = used + 1
  /\ \E left \in {"no", "open"} : partial' = [partial EXCEPT ![used'] = left]
  /\ UNCHANGED <<final, sidecar, tmp, kept, ep, mu, op, goVars, bootVars, gone, crashes>>

StartEpisode ==
  /\ Serving /\ ~Locked /\ ep = None /\ used < MaxEp
  /\ used' = used + 1
  /\ ep' = used'
  /\ kept' = kept \cup {used'}
  /\ partial' = [partial EXCEPT ![used'] = "open"]
  /\ tap' = [c \in Cam |-> used']
  /\ drain' = [drain EXCEPT ![used'] = "run"]
  /\ watch' = [watch EXCEPT ![used'] = "run"]
  /\ UNCHANGED <<final, sidecar, tmp, mu, op, vid, closed, fan, bootVars, gone, crashes>>

-----------------------------------------------------------------------------
(* The camera side: fanout copies the taps under the read lock, and calls   *)
(* them after releasing it.                                                 *)

Snapshot(c) ==
  /\ fan[c] = None /\ tap[c] # None
  /\ fan' = [fan EXCEPT ![c] = tap[c]]
  /\ UNCHANGED <<fileVars, ep, used, mu, op, watch, drain, vid, closed, tap, bootVars, gone, crashes>>

\* The tap: a frame before the first keyframe is dropped, and so is one that
\* finds the channel full.
CallTap(c) ==
  /\ fan[c] # None /\ ~closed[fan[c]]
  /\ \/ vid[fan[c]] < Buf /\ vid' = [vid EXCEPT ![fan[c]] = @ + 1]
     \/ UNCHANGED vid
  /\ fan' = [fan EXCEPT ![c] = None]
  /\ UNCHANGED <<fileVars, ep, used, mu, op, watch, drain, closed, tap, bootVars, gone, crashes>>

\* A send on a closed channel panics, and takes the agent down.
Panic(c) == fan[c] # None /\ closed[fan[c]] /\ Die

\* drainVideo: write a frame, or leave when the channel is closed and empty.
Drain(e) ==
  /\ drain[e] = "run"
  /\ \/ vid[e] > 0 /\ vid' = [vid EXCEPT ![e] = @ - 1] /\ UNCHANGED drain
     \/ /\ vid[e] = 0 /\ closed[e]
        /\ drain' = [drain EXCEPT ![e] = "off"]
        /\ UNCHANGED vid
  /\ UNCHANGED <<fileVars, ep, used, mu, op, watch, closed, tap, fan, bootVars, gone, crashes>>

-----------------------------------------------------------------------------
(* Stopping: by RPC, or by the watch goroutine when the disk runs low.      *)

\* Cancel the episode, remove its subscriptions.
EnterStop(who) ==
  /\ Serving /\ ~Locked /\ ep # None
  /\ mu' = who
  /\ op' = "untap"

StopEpisode ==
  /\ EnterStop("stop")
  /\ UNCHANGED <<fileVars, ep, used, goVars, bootVars, gone, crashes>>

\* A tick that finds the disk low; it may come after the cancel.
WatchTick(e) ==
  /\ watch[e] = "run"
  /\ watch' = [watch EXCEPT ![e] = "want"]
  /\ UNCHANGED <<fileVars, ep, used, mu, op, drain, vid, closed, tap, fan, bootVars, gone, crashes>>

\* The episode was cancelled.
WatchEnds(e) ==
  /\ watch[e] = "run" /\ (ep # e \/ Locked)
  /\ watch' = [watch EXCEPT ![e] = "off"]
  /\ UNCHANGED <<fileVars, ep, used, mu, op, drain, vid, closed, tap, fan, bootVars, gone, crashes>>

\* Variant: the watch goroutine stops whatever is being recorded.
AutoStopAny(e) ==
  /\ watch[e] = "want"
  /\ EnterStop("watch")
  /\ watch' = [watch EXCEPT ![e] = "off"]
  /\ UNCHANGED <<fileVars, ep, used, drain, vid, closed, tap, fan, bootVars, gone, crashes>>

\* autoStop: only its own episode.
AutoStop(e) ==
  /\ watch[e] = "want" /\ ~Locked
  /\ \/ ep = e /\ EnterStop("watch")
     \/ ep # e /\ UNCHANGED <<mu, op>>
  /\ watch' = [watch EXCEPT ![e] = "off"]
  /\ UNCHANGED <<fileVars, ep, used, drain, vid, closed, tap, fan, bootVars, gone, crashes>>

\* removeTap, one camera after the other, under that camera's lock.
RemoveTap(c) ==
  /\ op = "untap" /\ tap[c] # None
  /\ tap' = [tap EXCEPT ![c] = None]
  /\ UNCHANGED <<fileVars, ep, used, mu, op, watch, drain, vid, closed, fan, bootVars, gone, crashes>>

\* close(ep.vid).
CloseVid ==
  /\ op = "untap" /\ \A c \in Cam : tap[c] = None
  /\ closed' = [closed EXCEPT ![ep] = TRUE]
  /\ op' = "close"
  /\ UNCHANGED <<fileVars, ep, used, mu, watch, drain, vid, tap, fan, bootVars, gone, crashes>>

\* <-ep.drained.
AwaitDrained ==
  /\ op = "close" /\ drain[ep] = "off"
  /\ op' = "footer"
  /\ UNCHANGED <<fileVars, ep, used, mu, goVars, bootVars, gone, crashes>>

\* The stop is over: r.ep = nil, the mutex is released.
Leave == ep' = None /\ mu' = "free" /\ op' = "idle"

\* finalize: the metadata record, then Close writes the footer.
Footer ==
  /\ op = "footer"
  /\ \/ partial' = [partial EXCEPT ![ep] = "closed"] /\ op' = "rename" /\ UNCHANGED <<ep, mu>>
     \/ Leave /\ UNCHANGED partial
  /\ UNCHANGED <<final, sidecar, tmp, kept, used, goVars, bootVars, gone, crashes>>

\* finalize: os.Rename.
Rename ==
  /\ op = "rename"
  /\ \/ /\ final' = [final EXCEPT ![ep] = partial[ep]]
        /\ partial' = [partial EXCEPT ![ep] = "no"]
        /\ op' = "sidecar" /\ UNCHANGED <<ep, mu>>
     \/ Leave /\ UNCHANGED <<final, partial>>
  /\ UNCHANGED <<sidecar, tmp, kept, used, goVars, bootVars, gone, crashes>>

\* finalize: the sidecar, which may fail; the episode is over either way.
WriteSidecar ==
  /\ op = "sidecar"
  /\ \/ sidecar' = [sidecar EXCEPT ![ep] = TRUE]
     \/ UNCHANGED sidecar
  /\ Leave
  /\ UNCHANGED <<partial, final, tmp, kept, used, goVars, bootVars, gone, crashes>>

StopStep ==
  \/ \E c \in Cam : RemoveTap(c)
  \/ CloseVid \/ AwaitDrained \/ Footer \/ Rename \/ WriteSidecar

-----------------------------------------------------------------------------
(* Delete: the container, then the sidecar.                                 *)

Delete(e) ==
  /\ Serving /\ ~Locked /\ gone = None
  /\ e # ep /\ final[e] # "no"
  /\ final' = [final EXCEPT ![e] = "no"]
  /\ kept' = kept \ {e}
  /\ gone' = e
  /\ UNCHANGED <<partial, sidecar, tmp, ep, used, mu, op, goVars, bootVars, crashes>>

DeleteSidecar ==
  /\ gone # None
  /\ sidecar' = [sidecar EXCEPT ![gone] = FALSE]
  /\ gone' = None
  /\ UNCHANGED <<partial, final, tmp, kept, ep, used, mu, op, goVars, bootVars, crashes>>

-----------------------------------------------------------------------------
(* RecoverPartials, before the recorder serves.                             *)

RecGoto(step) == rec' = [rec EXCEPT !.at = step]

\* The next .partial in the directory; its temporary file is created, which
\* fails when there is one already.
RecoverNext(e) ==
  /\ rec = Idle /\ e \in todo
  /\ todo' = todo \ {e}
  /\ IF tmp[e] THEN UNCHANGED <<tmp, rec>>
               ELSE tmp' = [tmp EXCEPT ![e] = TRUE] /\ rec' = [at |-> "copy", id |-> e]
  /\ UNCHANGED <<partial, final, sidecar, kept, ep, used, mu, op, goVars, gone, crashes>>

\* The records are copied and the footer written; a partial that cannot be
\* read is left alone.
RecoverCopy ==
  /\ rec.at = "copy"
  /\ \/ RecGoto("rename") /\ UNCHANGED tmp
     \/ rec' = Idle /\ tmp' = [tmp EXCEPT ![rec.id] = FALSE]
  /\ UNCHANGED <<partial, final, sidecar, kept, ep, used, mu, op, goVars, todo, gone, crashes>>

\* Variant: the partial is removed before its copy has its name.
RecoverRenameLate ==
  /\ rec.at = "rename"
  /\ partial' = [partial EXCEPT ![rec.id] = "no"]
  /\ RecGoto("remove")
  /\ UNCHANGED <<final, tmp, sidecar, kept, ep, used, mu, op, goVars, todo, gone, crashes>>

RecoverRename ==
  /\ rec.at = "rename"
  /\ tmp' = [tmp EXCEPT ![rec.id] = FALSE]
  /\ \/ final' = [final EXCEPT ![rec.id] = "closed"] /\ RecGoto("remove")
     \/ rec' = Idle /\ UNCHANGED final
  /\ UNCHANGED <<partial, sidecar, kept, ep, used, mu, op, goVars, todo, gone, crashes>>

\* A partial that cannot be removed is tried again by the next boot.
RecoverRemove ==
  /\ rec.at = "remove"
  /\ \/ partial' = [partial EXCEPT ![rec.id] = "no"] /\ RecGoto("sidecar")
     \/ rec' = Idle /\ UNCHANGED partial
  /\ UNCHANGED <<final, sidecar, tmp, kept, ep, used, mu, op, goVars, todo, gone, crashes>>

\* The sidecar of a crashed episode.
RecoverSidecar ==
  /\ rec.at = "sidecar"
  /\ \/ sidecar' = [sidecar EXCEPT ![rec.id] = TRUE]
     \/ UNCHANGED sidecar
  /\ rec' = Idle
  /\ UNCHANGED <<partial, final, tmp, kept, ep, used, mu, op, goVars, todo, gone, crashes>>

RecoverStep ==
  \/ \E e \in Ep : RecoverNext(e)
  \/ RecoverCopy \/ RecoverRename \/ RecoverRemove \/ RecoverSidecar

-----------------------------------------------------------------------------
Next ==
  \/ StartEpisode \/ StartFails \/ StopEpisode \/ StopStep
  \/ \E c \in Cam : Snapshot(c) \/ CallTap(c) \/ Panic(c)
  \/ \E e \in Ep : \/ Drain(e) \/ WatchTick(e) \/ WatchEnds(e) \/ AutoStop(e)
                   \/ Delete(e)
  \/ DeleteSidecar \/ RecoverStep \/ Die

Spec == Init /\ [][Next]_vars

-----------------------------------------------------------------------------
\* Whatever the agent dies of and wherever, an episode that was recorded and
\* not deleted has its container, under one of its two names.
DataKept ==
  \A e \in kept : partial[e] # "no" \/ final[e] # "no"

\* A file with the final name is a whole container: finalize renames only
\* after Close, recoverPartial only after its copy.
FinalIsWhole == \A e \in Ep : final[e] # "open"

\* When the footer is written no frame is left in the channel and nobody is
\* writing: a stop loses none of the frames it was handed.
FlushedBeforeFooter ==
  op \in {"footer", "rename", "sidecar"} => vid[ep] = 0 /\ drain[ep] = "off"

\* The watch goroutine of one episode never stops another: a tick that waited
\* for the mutex while its episode ended and the next began does nothing.
AutoStopsItsOwn ==
  [][\A e \in Ep : watch[e] = "want" /\ watch'[e] = "off" /\ mu' = "watch" /\ mu = "free"
        => ep = e]_vars

\* A stop ends, although it holds the mutex while it waits for drainVideo and
\* the other goroutines want it.
StopEnds == Locked ~> ~Locked

\* A comment of stopLocked (recorder.go) that does not hold: "removeTap returns only
\* once the fanout goroutine can no longer send, so closing ep.vid afterward is safe."
\* removeTap takes the tap out of the map; fanout has copied the map and calls the taps
\* without the lock.
ClosingIsSafe == \A c \in Cam : fan[c] # None => ~closed[fan[c]]
=============================================================================
