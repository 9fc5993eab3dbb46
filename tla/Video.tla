-------------------------------- MODULE Video --------------------------------
(***************************************************************************)
(* The path of a camera's frames on the agent: a gst-launch process writes *)
(* H.264, pump cuts it into NAL units (pipeline/gst_proc.go, h264),        *)
(* supervise forwards them and restarts the process (camera.go), fanout    *)
(* puts them together into access units, one per frame, for the tracks and *)
(* the recorder's tap.  Each frame is written as a delimiter and a slice,  *)
(* an IDR slice in a keyframe.  A full channel loses the unit.             *)
(***************************************************************************)
EXTENDS Naturals, Sequences

CONSTANTS
  MaxFrame,   \* frames written
  MaxRun,     \* processes started
  Cap         \* capacity of both channels: 64 in the code

VARIABLES
  proc,       \* the process: "up" or "exited"
  stdout,     \* written and not yet cut
  written,    \* units written so far, over all processes
  cut,        \* the unit pump has cut, or none
  pump,       \* pump is reading, or has returned
  out, closed,\* gstProc.out
  ctx,        \* the camera's context is live
  sup,        \* supervise: "run", "wait" or "done"
  frames, ended, \* the channel from supervise to fanout
  au, keyframe,  \* fanout's access unit
  fan,        \* fanout is running
  given,      \* the last access unit the taps got, and the flag that came with it
  run,
  lost,       \* history: units dropped on the way
  dead        \* the agent panicked

channels == <<stdout, written, cut, pump, out, closed>>
state == <<proc, channels, ctx, sup, frames, ended, au, keyframe, fan, given, run, lost, dead>>

None == <<>>
Frame == 1 .. MaxFrame
Kind == {"aud", "idr", "slice"}
\* The frame the next unit belongs to; it is the frame's delimiter or its slice.
NextFrame == (written \div 2) + 1

TypeOK ==
  /\ proc \in {"up", "exited"} /\ pump \in {"reading", "done"} /\ sup \in {"run", "wait", "done"}
  /\ Len(out) <= Cap /\ Len(frames) <= Cap
  /\ lost \subseteq Frame \X Kind
  /\ {closed, ctx, ended, keyframe, fan, dead} \subseteq BOOLEAN

Init ==
  /\ proc = "up" /\ stdout = <<>> /\ written = 0 /\ cut = None /\ pump = "reading"
  /\ out = <<>> /\ closed = FALSE /\ ctx = TRUE /\ sup = "run"
  /\ frames = <<>> /\ ended = FALSE /\ au = <<>> /\ keyframe = FALSE /\ fan = TRUE
  /\ given = [units |-> <<>>, key |-> FALSE] /\ run = 1
  /\ lost = {} /\ dead = FALSE

-----------------------------------------------------------------------------
(* The process (external) and pump. *)

Write(kind) ==
  /\ ~dead /\ proc = "up" /\ NextFrame \in Frame
  /\ (kind = "aud") = (written % 2 = 0)
  /\ written' = written + 1 /\ stdout' = Append(stdout, <<NextFrame, kind>>)
  /\ UNCHANGED <<proc, cut, pump, out, closed, ctx, sup, frames, ended, au, keyframe, fan,
                 given, run, lost, dead>>

\* The process ends by itself or is killed through its context, in a frame or
\* between two.
Exit ==
  /\ ~dead /\ proc = "up" /\ proc' = "exited"
  /\ written' = written + (written % 2)
  /\ UNCHANGED <<stdout, cut, pump, out, closed, ctx, sup, frames, ended, au, keyframe, fan,
                 given, run, lost, dead>>

ReadNAL ==
  /\ ~dead /\ pump = "reading" /\ cut = None /\ stdout # <<>>
  /\ cut' = Head(stdout) /\ stdout' = Tail(stdout)
  /\ UNCHANGED <<proc, written, pump, out, closed, ctx, sup, frames, ended, au, keyframe, fan,
                 given, run, lost, dead>>

\* End of file, or a read from the pipe Wait has closed.
ReadFails ==
  /\ ~dead /\ pump = "reading" /\ cut = None /\ stdout = <<>> /\ proc = "exited"
  /\ pump' = "done"
  /\ UNCHANGED <<proc, stdout, written, cut, out, closed, ctx, sup, frames, ended, au, keyframe,
                 fan, given, run, lost, dead>>

\* The send of pump: dropped when the channel is full, a panic when it is closed.
Pump ==
  /\ ~dead /\ cut # None /\ cut' = None
  /\ dead' = closed
  /\ out' = IF ~closed /\ Len(out) < Cap THEN Append(out, cut) ELSE out
  /\ lost' = IF closed \/ Len(out) < Cap THEN lost ELSE lost \cup {cut}
  /\ UNCHANGED <<proc, stdout, written, pump, closed, ctx, sup, frames, ended, au, keyframe,
                 fan, given, run>>

\* cmd.Wait returns and the goroutine behind it closes out.  Wait closes the pipe:
\* of what was not read yet pump keeps what its reader had buffered.
WaitCloses(buffered) ==
  /\ ~dead /\ proc = "exited" /\ ~closed /\ closed' = TRUE
  /\ stdout' = SubSeq(stdout, 1, buffered)
  /\ lost' = lost \cup {stdout[i] : i \in (buffered + 1) .. Len(stdout)}
  /\ UNCHANGED <<proc, written, cut, pump, out, ctx, sup, frames, ended, au, keyframe, fan,
                 given, run, dead>>

-----------------------------------------------------------------------------
(* supervise. *)

Forward ==
  /\ ~dead /\ sup = "run" /\ out # <<>> /\ out' = Tail(out)
  /\ IF Len(frames) < Cap THEN frames' = Append(frames, Head(out)) /\ UNCHANGED lost
     ELSE lost' = lost \cup {Head(out)} /\ UNCHANGED frames
  /\ UNCHANGED <<proc, stdout, written, cut, pump, closed, ctx, sup, ended, au, keyframe, fan,
                 given, run, dead>>

\* The source is closed and empty: back off, or return and close the frames.
RunEnds ==
  /\ ~dead /\ sup = "run" /\ out = <<>> /\ closed
  /\ sup' = IF ctx THEN "wait" ELSE "done"
  /\ ended' = ~ctx
  /\ UNCHANGED <<proc, channels, ctx, frames, au, keyframe, fan, given, run, lost, dead>>

\* The next process, a second or more later: the old pump has returned by then.
Restart ==
  /\ ~dead /\ sup = "wait" /\ pump = "done"
  /\ IF ctx THEN /\ run < MaxRun /\ run' = run + 1 /\ sup' = "run" /\ UNCHANGED ended
                 /\ proc' = "up" /\ pump' = "reading" /\ out' = <<>> /\ closed' = FALSE
     ELSE sup' = "done" /\ ended' = TRUE /\ UNCHANGED <<proc, pump, out, closed, run>>
  /\ UNCHANGED <<stdout, written, cut, ctx, frames, au, keyframe, fan, given, lost, dead>>

-----------------------------------------------------------------------------
(* fanout. *)

Flush == given' = IF au = <<>> THEN given ELSE [units |-> au, key |-> keyframe]

\* Variant: an IDR slice starts an access unit too, and the flag is set before the flush.
FanoutFlagFirst ==
  LET nal == Head(frames)
      key == nal[2] = "idr" \/ (keyframe /\ nal[2] # "aud") IN
  /\ ~dead /\ fan /\ frames # <<>> /\ frames' = Tail(frames) /\ keyframe' = key
  /\ IF nal[2] = "slice" THEN au' = Append(au, nal) /\ UNCHANGED given
     ELSE au' = <<nal>> /\ given' = IF au = <<>> THEN given ELSE [units |-> au, key |-> key]
  /\ UNCHANGED <<proc, channels, ctx, sup, ended, fan, run, lost, dead>>

\* A delimiter flushes what there is; an IDR slice sets the flag.
Fanout ==
  LET nal == Head(frames) IN
  /\ ~dead /\ fan /\ frames # <<>> /\ frames' = Tail(frames)
  /\ IF nal[2] = "aud" THEN Flush /\ au' = <<nal>> ELSE au' = Append(au, nal) /\ UNCHANGED given
  /\ keyframe' = (nal[2] = "idr" \/ (keyframe /\ nal[2] # "aud"))
  /\ UNCHANGED <<proc, channels, ctx, sup, ended, fan, run, lost, dead>>

\* The frames are closed: flush and return.  Or the context is: return.
FanoutEnds ==
  /\ ~dead /\ fan /\ fan' = FALSE
  /\ \/ ended /\ frames = <<>> /\ Flush
     \/ ~ctx /\ UNCHANGED given
  /\ UNCHANGED <<proc, channels, ctx, sup, frames, ended, au, keyframe, run, lost, dead>>

\* Camera.Stop cancels the context, which kills the process.
Stop ==
  /\ ~dead /\ ctx /\ ctx' = FALSE
  /\ UNCHANGED <<proc, channels, sup, frames, ended, au, keyframe, fan, given, run, lost, dead>>

Next ==
  \/ \E kind \in Kind : Write(kind)
  \/ Exit \/ ReadNAL \/ ReadFails \/ Pump \/ Forward \/ RunEnds \/ Restart \/ Fanout \/ FanoutEnds \/ Stop
  \/ \E n \in 0 .. Len(stdout) : WaitCloses(n)

-----------------------------------------------------------------------------
\* An access unit is one frame in order, or the delimiter of every further frame in
\* it was dropped by a full channel on the way; a pipeline restart glues no frames
\* together (fanout, whose timestamps count one frame per access unit).
OneFramePerUnit ==
  \A i \in DOMAIN given.units \ {1} :
    LET a == given.units[i - 1]  b == given.units[i] IN
      /\ a[1] <= b[1] /\ b[2] # "aud"
      /\ a[1] # b[1] => <<b[1], "aud">> \in lost

\* The flag a tap gets is true exactly for an access unit with an IDR slice, which
\* the recorder starts its files at; it survives drops and restarts.
KeyframeFlag == given.key = \E i \in DOMAIN given.units : given.units[i][2] = "idr"
=============================================================================
