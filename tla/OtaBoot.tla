------------------------------ MODULE OtaBoot ------------------------------
(***************************************************************************)
(* The A/B update of a rover, from the moment a verified .swu is handed to *)
(* swupdate to the moment the new image is kept or given up:               *)
(*   - agent/internal/apply/rpc.go   picks the slot that is not running;   *)
(*   - sw-description, switch-to-X.sh (built by post-image.sh)   write it, *)
(*     point cmdline.txt at it and arm /data/waypoint/bootcount;           *)
(*   - bootcount-tick.sh   counts the probationary boots, and reverts;     *)
(*   - waypoint-agent and bootcheck.c   declare the boot healthy.          *)
(*                                                                         *)
(* The two files live on two file systems behind a page cache: "sync"      *)
(* makes them durable, and a power cut keeps, for each of them on its own, *)
(* either what was last written or what was last synced.                   *)
(*                                                                         *)
(* "disturbed" remembers that one of these happened, for the properties:   *)
(*   - an update was started on a boot not yet healthy, or on probation;   *)
(*   - bootcheck removed the count that swupdate had armed in that boot;   *)
(*   - swupdate died with its agent between cmdline.txt and the count;     *)
(*   - power was lost while cmdline.txt was written and not yet synced, or *)
(*     brought back a count that had been removed and not synced.          *)
(***************************************************************************)
EXTENDS Naturals

CONSTANTS
  MaxCuts,        \* power cuts a behaviour may suffer
  MaxApplies      \* updates a behaviour may receive

ASSUME BoundAssumption == MaxCuts \in Nat /\ MaxApplies \in Nat

VARIABLES
  image,      \* what each root file system holds
  cmdline,    \* the slot that /boot/cmdline.txt names
  bootcount,  \* /data/waypoint/bootcount
  synced,     \* the durable contents of those two files
  root,       \* the slot the running kernel was booted from
  pc,         \* where the boot is
  healthy,    \* /run/waypoint/healthy exists
  checking,   \* bootcheck is still waiting for it
  upd,        \* where swupdate is
  kind,       \* the image it installs
  cuts,       \* power cuts so far
  applies,    \* updates so far
  disturbed   \* history: the update met one of four accidents (below)

diskVars == <<cmdline, bootcount, synced>>
bootVars == <<root, pc, healthy, checking>>
updVars == <<upd, kind, applies>>
vars == <<image, diskVars, bootVars, updVars, cuts, disturbed>>

Slot == {"A", "B"}
Other(s) == CHOOSE t \in Slot : t # s

\* An image is good when its agent lives long enough to signal healthy.
Image == {"good", "bad"}
Torn == "torn"          \* half of an image: the kernel finds no root

\* The count, as a number, or no file.  A file that lost its bytes reads as
\* the empty string, which the shell's arithmetic takes for 0.
Absent == 4
Count == 0 .. Absent

TypeOK ==
  /\ image \in [Slot -> Image \cup {Torn}]
  /\ cmdline \in Slot
  /\ bootcount \in Count
  /\ synced \in [cmdline : Slot, bootcount : Count]
  /\ root \in Slot
  /\ pc \in {"off", "tick", "count", "swap", "clear", "flush", "up", "dead"}
  /\ healthy \in BOOLEAN
  /\ checking \in BOOLEAN
  /\ upd \in {"idle", "write", "writing", "switch", "arm", "sync", "exit"}
  /\ kind \in Image
  /\ cuts \in 0 .. MaxCuts
  /\ applies \in 0 .. MaxApplies
  /\ disturbed \in BOOLEAN

\* A rover that was flashed: slot A runs, nothing is on probation.
Init ==
  /\ image = [s \in Slot |-> IF s = "A" THEN "good" ELSE Torn]
  /\ cmdline = "A" /\ bootcount = Absent
  /\ synced = [cmdline |-> "A", bootcount |-> Absent]
  /\ root = "A" /\ pc = "off" /\ healthy = FALSE /\ checking = FALSE
  /\ upd = "idle" /\ kind = "good" /\ applies = 0
  /\ cuts = 0 /\ disturbed = FALSE

Sync == synced' = [cmdline |-> cmdline, bootcount |-> bootcount]

-----------------------------------------------------------------------------
(* Booting: the firmware, then bootcount-tick.                              *)

\* The firmware mounts the slot that cmdline.txt names.  /run is a tmpfs.
Boot ==
  /\ pc = "off"
  /\ root' = cmdline
  /\ pc' = IF image[cmdline] = Torn THEN "dead" ELSE "tick"
  /\ healthy' = FALSE
  /\ checking' = TRUE
  /\ upd' = "idle"
  /\ UNCHANGED <<image, diskVars, kind, applies, cuts, disturbed>>

\* bootcount-tick: leave at once without a count, else spend one; the boot
\* that would spend the last one reverts instead.
Tick ==
  /\ pc = "tick"
  /\ pc' = IF bootcount = Absent THEN "up"
           ELSE IF bootcount <= 1 THEN "swap" ELSE "count"
  /\ UNCHANGED <<image, diskVars, root, healthy, checking, updVars, cuts, disturbed>>

Advance(from, to) == pc = from /\ pc' = to

\* The decremented count is written back, then synced.
TickCount ==
  /\ Advance("count", "flush")
  /\ bootcount' = bootcount - 1
  /\ UNCHANGED <<image, cmdline, synced, root, healthy, checking, updVars, cuts, disturbed>>

\* Variant: the pattern does not match the UUID in the file.
TickSwapNothing ==
  /\ Advance("swap", "clear")
  /\ UNCHANGED <<image, diskVars, root, healthy, checking, updVars, cuts, disturbed>>

\* The revert: exchange the slots in cmdline.txt, ...
TickSwap ==
  /\ Advance("swap", "clear")
  /\ cmdline' = Other(cmdline)
  /\ UNCHANGED <<image, bootcount, synced, root, healthy, checking, updVars, cuts, disturbed>>

\* ... then remove the count ...
TickClear ==
  /\ Advance("clear", "flush")
  /\ bootcount' = Absent
  /\ UNCHANGED <<image, cmdline, synced, root, healthy, checking, updVars, cuts, disturbed>>

\* ... and sync; a tick that reverted then reboots.
TickSync ==
  /\ pc = "flush"
  /\ Sync
  /\ pc' = IF bootcount = Absent THEN "off" ELSE "up"
  /\ UNCHANGED <<image, cmdline, bootcount, root, healthy, checking, updVars, cuts, disturbed>>

-----------------------------------------------------------------------------
(* A running image: the agent's health signal and bootcheck.                *)

\* Variant: any agent that starts is taken for healthy.
SignalHealthyAny ==
  /\ pc = "up"
  /\ healthy' = TRUE
  /\ UNCHANGED <<image, diskVars, root, pc, checking, updVars, cuts, disturbed>>

\* main: three seconds after the agent came up.
SignalHealthy ==
  /\ pc = "up"
  /\ image[root] = "good"
  /\ healthy' = TRUE
  /\ UNCHANGED <<image, diskVars, root, pc, checking, updVars, cuts, disturbed>>

\* bootcheck sees the signal and removes the count, without a sync.  If
\* swupdate has armed the count of the next image in this very boot, it is
\* that count which is lost.
BootcheckClear ==
  /\ pc = "up" /\ checking /\ healthy
  /\ bootcount' = Absent
  /\ checking' = FALSE
  /\ disturbed' = (disturbed \/ cmdline # root)
  /\ UNCHANGED <<image, cmdline, synced, root, pc, healthy, updVars, cuts>>

\* bootcheck gives up after 60 s and leaves the count.
BootcheckTimeout ==
  /\ pc = "up" /\ checking /\ ~healthy
  /\ checking' = FALSE
  /\ UNCHANGED <<image, diskVars, root, pc, healthy, updVars, cuts, disturbed>>

-----------------------------------------------------------------------------
(* The update.                                                              *)

\* The request is verified and swupdate is started.  The handler does not
\* look at the health of the boot or at the count.
Apply(k) ==
  /\ pc = "up" /\ upd = "idle" /\ applies < MaxApplies
  /\ upd' = "write"
  /\ kind' = k
  /\ applies' = applies + 1
  /\ disturbed' = (disturbed \/ ~healthy \/ bootcount # Absent)
  /\ UNCHANGED <<image, diskVars, bootVars, cuts>>

\* swupdateSelector: copy-2 on A, copy-1 on B.
Selector == Other(root)

Swupdate(from, to) == pc = "up" /\ upd = from /\ upd' = to

\* swupdate overwrites the slot, or finds the same image there.
WriteBegin ==
  /\ \/ Swupdate("write", "writing") /\ image' = [image EXCEPT ![Selector] = Torn]
     \/ image[Selector] = kind /\ Swupdate("write", "switch") /\ UNCHANGED image
  /\ UNCHANGED <<diskVars, bootVars, kind, applies, cuts, disturbed>>

\* It finishes, or fails and leaves the slot half written.
WriteEnd ==
  /\ \/ Swupdate("writing", "switch") /\ image' = [image EXCEPT ![Selector] = kind]
     \/ Swupdate("writing", "idle") /\ UNCHANGED image
  /\ UNCHANGED <<diskVars, bootVars, kind, applies, cuts, disturbed>>

\* switch-to-X.sh: cmdline.txt, ...
Switch ==
  /\ Swupdate("switch", "arm")
  /\ cmdline' = Selector
  /\ UNCHANGED <<image, bootcount, synced, bootVars, kind, applies, cuts, disturbed>>

\* ... the count, ...
Arm ==
  /\ Swupdate("arm", "sync")
  /\ bootcount' = 3
  /\ UNCHANGED <<image, cmdline, synced, bootVars, kind, applies, cuts, disturbed>>

\* ... sync.
SwitchSync ==
  /\ Swupdate("sync", "exit")
  /\ Sync
  /\ UNCHANGED <<image, cmdline, bootcount, bootVars, kind, applies, cuts, disturbed>>

\* swupdate reboots the rover, or exits without doing so.
Exit ==
  /\ Swupdate("exit", "idle")
  /\ \/ pc' = "off" /\ Sync
     \/ UNCHANGED <<pc, synced>>
  /\ UNCHANGED <<image, cmdline, bootcount, root, healthy, checking, kind, applies, cuts, disturbed>>

\* The agent exits; swupdate, in the same control group, is killed with it.
AgentDies ==
  /\ pc = "up" /\ upd # "idle"
  /\ upd' = "idle"
  /\ disturbed' = (disturbed \/ upd = "arm")
  /\ UNCHANGED <<image, diskVars, bootVars, kind, applies, cuts>>

-----------------------------------------------------------------------------
(* The world around the rover.                                              *)

\* An orderly reboot: services stop, file systems are flushed.
Reboot ==
  /\ pc = "up" /\ upd = "idle"
  /\ pc' = "off"
  /\ Sync
  /\ UNCHANGED <<image, cmdline, bootcount, root, healthy, checking, updVars, cuts, disturbed>>

\* Power is lost.  A count that was being replaced may have lost its bytes.
PowerCut ==
  /\ pc # "off" /\ cuts < MaxCuts
  /\ cuts' = cuts + 1
  /\ cmdline' \in {cmdline, synced.cmdline}
  /\ bootcount' \in {bootcount, synced.bootcount}
                      \cup {n \in {0} : bootcount \notin {synced.bootcount, Absent}}
  /\ synced' = [cmdline |-> cmdline', bootcount |-> bootcount']
  /\ pc' = "off"
  /\ disturbed' = (disturbed \/ cmdline # synced.cmdline
                           \/ (bootcount = Absent /\ bootcount' # Absent))
  /\ UNCHANGED <<image, root, healthy, checking, updVars>>

BootStep == Boot \/ Tick \/ TickCount \/ TickSwap \/ TickClear \/ TickSync
Check == SignalHealthy \/ BootcheckClear \/ BootcheckTimeout
UpdateStep == WriteBegin \/ WriteEnd \/ Switch \/ Arm \/ SwitchSync \/ Exit

Next ==
  \/ BootStep \/ Check
  \/ \E k \in Image : Apply(k)
  \/ UpdateStep \/ AgentDies
  \/ Reboot \/ PowerCut

Spec == Init /\ [][Next]_vars

\* Scripts and services run to their end, and a rover that stays up is
\* rebooted some day.
Fairness ==
  WF_vars(BootStep) /\ WF_vars(Check) /\ WF_vars(UpdateStep) /\ WF_vars(Reboot)

FairSpec == Spec /\ Fairness

-----------------------------------------------------------------------------
\* As long as no accident disturbed an update, an image that never
\* becomes healthy is never taken for settled: a rover that runs a bad image
\* is on probation (bootcount is there to be counted down).
BadIsOnProbation ==
  ~disturbed /\ pc = "up" /\ image[root] = "bad" => bootcount # Absent

\* ... the rover never tries to boot a slot that is half written, ...
NeverDead == ~disturbed => pc # "dead"

\* ... and whatever is on probation, the slot a revert goes to holds an image
\* that was healthy.
FallbackKept ==
  ~disturbed /\ bootcount # Absent /\ pc \in {"tick", "count", "swap"}
    => image[Other(cmdline)] = "good"

\* No step of an update ever touches the root file system that is running.
RunningSlotIntact == pc \notin {"off", "dead"} => image[root] # Torn

\* What an update never costs the rover: all four.
UpdateIsSafe == TypeOK /\ BadIsOnProbation /\ NeverDead /\ FallbackKept /\ RunningSlotIntact

\* A rover that came up on a bad image is, some reboots later, back on a good
\* one, unless the update was disturbed.
Recovers ==
  (~disturbed /\ pc = "up" /\ image[root] = "bad")
    ~> (disturbed \/ (pc = "up" /\ image[root] = "good"))

\* A probation ends, by bootcheck or by the revert, whatever accidents happen;
\* only a rover that no longer boots keeps its count.
ProbationEnds == bootcount # Absent ~> (bootcount = Absent \/ pc = "dead")

-----------------------------------------------------------------------------
(* The strengthening that makes the invariants above inductive.             *)

\* swupdate's script has switched cmdline.txt away from the running slot.
Pending == pc = "up" /\ cmdline # root
Dirty == cmdline # synced.cmdline

\* A tick that goes on to count has something left to count.
TickInv == pc = "count" => bootcount \in 2 .. 3

\* Where the boot is, and what it has already done.
BootInv ==
  /\ pc # "dead"
  /\ pc \in {"tick", "count", "swap"} => cmdline = root
  /\ pc \in {"tick", "count", "swap", "clear", "flush"} => upd = "idle" /\ ~healthy
  /\ pc \in {"swap", "clear"} => bootcount # Absent
  /\ pc = "clear" => Dirty /\ image[cmdline] = "good"
  /\ pc = "flush" /\ bootcount # Absent => cmdline = root
  /\ pc = "up" /\ healthy => image[root] = "good"

\* Where the update is: until the switch the rover is settled on the slot it
\* runs, and from the switch on the other slot is complete.
UpdateInv ==
  pc = "up" =>
    /\ upd \in {"write", "writing", "switch"} =>
         cmdline = root /\ bootcount = Absent /\ image[root] = "good"
    /\ upd = "switch" => image[Other(root)] = kind
    /\ upd \in {"arm", "sync", "exit"} => Pending
    /\ upd = "arm" => Dirty
    /\ Pending => /\ image[root] = "good" /\ image[cmdline] # Torn
                  /\ bootcount = Absent <=> upd = "arm"

\* What the count says of the two slots.
CountInv ==
  /\ bootcount = Absent /\ ~Pending => image[cmdline] = "good"
  /\ bootcount # Absent => image[cmdline] # Torn
  /\ bootcount # Absent /\ pc # "clear" => image[Other(cmdline)] = "good"
  /\ Dirty => Pending \/ pc \in {"clear", "flush"}
  /\ bootcount # Absent /\ synced.bootcount = Absent => Dirty

ProbationInv == ~disturbed => BootInv /\ UpdateInv /\ CountInv

=============================================================================
