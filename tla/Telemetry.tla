----------------------------- MODULE Telemetry -----------------------------
(* What the agent publishes about itself on a cadence: the heartbeat, the    *)
(* clock anchor a recorder maps monotonic stamps with, the system telemetry  *)
(* and the log. Time is a count of ticks of the anchor's poll; a goroutine   *)
(* may be late for its ticker, which keeps one tick for it.                  *)
EXTENDS Integers, Sequences

CONSTANTS
  Reannounce, \* polls after which the anchor is sent again
  Width,      \* the CPU counters wrap at this value (2^64 in the code)
  MaxTicks,   \* bound on time
  MaxSteps    \* bound: clock steps, failed reads and counters that go back

None == <<>>
Zero == [idle |-> 0, total |-> 0]
Loop == {"beat", "clock", "system"}

VARIABLES
  mono,    \* the monotonic clock
  off,     \* wall clock minus monotonic clock; 0 when it is right
  synced,  \* the kernel's clock is disciplined
  due,     \* loops whose ticker holds a tick
  running, \* imgCtx is not cancelled
  poll,    \* the anchor loop between the read of synced and the stamp: <<cur>>
  anchor,  \* the last anchor sent: [off, synced, mono]
  last,    \* the sync state last announced
  beat,    \* when the last heartbeat was sent
  cpu,     \* /proc/stat: [idle, total], wrapping
  prev,    \* the probe's previous sample, or None
  since,   \* the reference: idle and total time since that sample
  sys,     \* the last telemetry sent: [cpu, mem]; a field left out is None
  logs,    \* records written to stderr, sent on the bus, dropped
  hist     \* what has happened: steps, back (idle time ran back), lost (synced
           \* went away between the read and the stamp), seen (what the last poll read)

vars == <<mono, off, synced, due, running, poll, anchor, last, beat, cpu, prev, since, sys, logs, hist>>

(* ---- Stamps and the clock anchor ----------------------------------------- *)

\* A dual stamp; the wall clock is off from the monotonic one.
Now == [wall |-> mono + off, mono |-> mono]

\* The wall clock at monotonic zero. (lost is a mark of the model's.)
build(s, cur) == [off |-> s.wall - s.mono, synced |-> cur, mono |-> s.mono, lost |-> hist.lost]

shouldPublish(cur) == cur # last \/ mono - anchor.mono >= Reannounce

\* Run's first lines, and a tick: the sync state is read.
ReadSynced ==
  /\ running /\ "clock" \in due /\ poll = None
  /\ due' = due \ {"clock"}
  /\ poll' = (IF shouldPublish(synced) THEN <<synced>> ELSE None)
  /\ hist' = [hist EXCEPT !.lost = FALSE, !.seen = synced]
  /\ UNCHANGED <<mono, off, synced, running, anchor, last, beat, cpu, prev, since, sys, logs>>

\* publishOnce: the stamp is taken now, whatever has happened to the clock.
PublishAnchor ==
  /\ poll # None /\ anchor' = build(Now, poll[1]) /\ last' = poll[1] /\ poll' = None
  /\ UNCHANGED <<mono, off, synced, due, running, beat, cpu, prev, since, sys, logs, hist>>

(* ---- System telemetry ---------------------------------------------------- *)

\* Idle time with iowait, and all time; the counters are unsigned.
parseProcStatSample == cpu

\* The part of the time that was not idle, as <<busy, all>>; None when no time
\* has passed.
cpuPercentFromSamples(p, c) ==
  LET dTotal == (c.total - p.total) % Width
      dIdle == (c.idle - p.idle) % Width
  IN IF dTotal = 0 THEN None ELSE <<dTotal - dIdle, dTotal>>

\* What CPUPercent keeps for the next call.
CPUSample == <<parseProcStatSample>>

\* The first sample has nothing to compare with.
CPUPercent == IF prev = None THEN None ELSE cpuPercentFromSamples(prev[1], parseProcStatSample)

\* Used and total memory from the two lines, each of which may be missing.
parseMemInfo(total, avail) ==
  IF total = None \/ avail = None THEN None
  ELSE IF avail[1] > total[1] THEN None ELSE <<total[1] - avail[1], total[1]>>

\* One message: a probe that reads nothing leaves its field out, and a failed
\* read of the counters leaves the sample alone. The last two fields are the
\* reference: what the time was spent on since the sample.
PublishSystem(ok, total, avail) ==
  /\ running /\ "system" \in due /\ due' = due \ {"system"}
  /\ ok \/ hist.steps < MaxSteps
  /\ sys' = [cpu |-> IF ok THEN CPUPercent ELSE None, mem |-> parseMemInfo(total, avail),
             spent |-> since, back |-> hist.back]
  /\ IF ok THEN prev' = CPUSample /\ since' = Zero /\ hist' = [hist EXCEPT !.back = FALSE]
     ELSE hist' = [hist EXCEPT !.steps = @ + 1] /\ UNCHANGED <<prev, since>>
  /\ UNCHANGED <<mono, off, synced, running, poll, anchor, last, beat, cpu, logs>>

(* ---- Heartbeat and log --------------------------------------------------- *)

PublishBeat ==
  /\ running /\ "beat" \in due /\ due' = due \ {"beat"} /\ beat' = mono
  /\ UNCHANGED <<mono, off, synced, running, poll, anchor, last, cpu, prev, since, sys, logs, hist>>

\* BusSink.Handle: what cannot be sent is counted, by the counter a derived
\* sink shares, and no error comes back.
BusHandle(sent) == [logs EXCEPT !.sent = @ + (IF sent THEN 1 ELSE 0), !.dropped = @ + (IF sent THEN 0 ELSE 1)]

\* MultiHandler.Handle: every sink gets the record, whatever the others do.
Handle(sent) == [BusHandle(sent) EXCEPT !.stderr = @ + 1]

Log(sent) ==
  /\ hist.steps < MaxSteps /\ hist' = [hist EXCEPT !.steps = @ + 1]
  /\ logs' = Handle(sent)
  /\ UNCHANGED <<mono, off, synced, due, running, poll, anchor, last, beat, cpu, prev, since, sys>>

(* ---- The machine --------------------------------------------------------- *)

Init ==
  /\ mono = 0 /\ off \in {0, 5} /\ synced = (off = 0) /\ due = Loop /\ running = TRUE
  /\ poll = None /\ anchor = [off |-> off, synced |-> synced, mono |-> -Reannounce, lost |-> FALSE]
  /\ last = synced /\ beat = 0 /\ cpu = [idle |-> Width - 1, total |-> Width - 1] /\ prev = None
  /\ since = Zero /\ sys = [cpu |-> None, mem |-> None, spent |-> Zero, back |-> FALSE]
  /\ logs = [stderr |-> 0, sent |-> 0, dropped |-> 0]
  /\ hist = [steps |-> 0, back |-> FALSE, lost |-> FALSE, seen |-> synced]

\* Time passes, spent idle or not, and every ticker ticks; a loop that has not
\* taken its last tick loses one. A loop that runs is never two ticks late.
Tick(idle) ==
  /\ mono < MaxTicks /\ mono' = mono + 1 /\ (running => due = {}) /\ poll = None
  /\ due' = Loop
  /\ cpu' = [idle |-> (cpu.idle + idle) % Width, total |-> (cpu.total + 1) % Width]
  /\ since' = [idle |-> since.idle + idle, total |-> since.total + 1]
  /\ UNCHANGED <<off, synced, running, poll, anchor, last, beat, prev, sys, logs, hist>>

\* The time daemon steps the clock right, or loses its sources.
Discipline ==
  /\ ~synced /\ synced' = TRUE /\ off' = 0
  /\ UNCHANGED <<mono, due, running, poll, anchor, last, beat, cpu, prev, since, sys, logs, hist>>
Undiscipline ==
  /\ synced /\ hist.steps < MaxSteps /\ synced' = FALSE /\ off' = 5
  /\ hist' = [hist EXCEPT !.steps = @ + 1, !.lost = @ \/ poll # None]
  /\ UNCHANGED <<mono, due, running, poll, anchor, last, beat, cpu, prev, since, sys, logs>>

\* The kernel's iowait count, and so idle and total, can run back.
IoWaitBack ==
  /\ hist.steps < MaxSteps /\ hist' = [hist EXCEPT !.steps = @ + 1, !.back = TRUE]
  /\ cpu' = [idle |-> (cpu.idle - 1) % Width, total |-> (cpu.total - 1) % Width]
  /\ UNCHANGED <<mono, off, synced, due, running, poll, anchor, last, beat, prev, since, sys, logs>>

\* The context is cancelled and the loops take that instead of a tick.
Cancel ==
  /\ running /\ poll = None /\ running' = FALSE
  /\ UNCHANGED <<mono, off, synced, due, poll, anchor, last, beat, cpu, prev, since, sys, logs, hist>>

Next ==
  \/ ReadSynced \/ PublishAnchor \/ PublishBeat \/ Discipline \/ Undiscipline \/ IoWaitBack \/ Cancel
  \/ \E i \in {0, 1} : Tick(i)
  \/ \E ok \in BOOLEAN, a \in {None, <<1>>, <<3>>} : PublishSystem(ok, <<2>>, a)
  \/ \E s \in BOOLEAN : Log(s)

Spec == Init /\ [][Next]_vars

(* ---- Properties ---------------------------------------------------------- *)

TypeOK ==
  /\ mono \in 0 .. MaxTicks /\ off \in {0, 5} /\ synced \in BOOLEAN /\ due \subseteq Loop
  /\ running \in BOOLEAN /\ poll \in {None, <<TRUE>>, <<FALSE>>} /\ last \in BOOLEAN
  /\ cpu \in [idle : 0 .. Width - 1, total : 0 .. Width - 1] /\ beat \in 0 .. MaxTicks

\* An anchor that says it is of a disciplined clock gives the right wall time,
\* unless the clock lost its sources between the read of the state and the
\* stamp: the anchor's loop reads the two one after the other.
AnchorIsRight == anchor.synced => anchor.off = 0 \/ anchor.lost

\* Between two polls the last anchor says what the last poll read, and is
\* never older than the cadence: a change of state is announced at once.
AnchorIsFresh ==
  "clock" \notin due /\ poll = None =>
    /\ anchor.synced = hist.seen /\ mono - anchor.mono < Reannounce

\* The CPU share sent is that of the time since the sample before, across a
\* wrap of the counters and failed reads, unless a counter ran back.
CpuIsSinceSample ==
  sys.cpu # None /\ ~sys.back =>
    sys.cpu = <<sys.spent.total - sys.spent.idle, sys.spent.total>>

\* Used memory never exceeds the total: what makes no sense is left out.
MemoryMakesSense == sys.mem # None => sys.mem[1] \in 0 .. sys.mem[2]

\* stderr has every record, and every record was sent or counted as dropped.
LogsAreCounted == logs.stderr = logs.sent + logs.dropped

=============================================================================
