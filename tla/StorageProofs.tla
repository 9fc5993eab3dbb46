-------------------------- MODULE StorageProofs --------------------------
(***************************************************************************)
(* Proofs about the A/B update (OtaBoot), the requests that write a slot   *)
(* (ApplyImage) and the episodes (Recorder), for any number of updates,    *)
(* power cuts, episodes and deaths and any set of requests, artifacts and  *)
(* cameras.                                                                *)
(***************************************************************************)
EXTENDS MCStorage, TLAPS

-----------------------------------------------------------------------------
(* The A/B update.                                                          *)

\* The two slots.
LEMMA Slots ==
  /\ Other("A") = "B" /\ Other("B") = "A"
  /\ \A s \in Slot : Other(s) \in Slot /\ Other(s) # s
BY DEF Other, Slot

-----------------------------------------------------------------------------
(* Types, and the slot that runs.                                           *)

Base == TypeOK /\ TickInv /\ RunningSlotIntact

LEMMA BaseInit ==
  ASSUME Init
  PROVE  Base
<1>1. healthy \in BOOLEAN /\ checking \in BOOLEAN /\ disturbed \in BOOLEAN
  BY ZenonT(40) DEF Init
<1> QED
  BY <1>1, BoundAssumption
  DEF Init, Base, TypeOK, TickInv, RunningSlotIntact, Slot, Count, Absent, Image, Torn

LEMMA BaseStep ==
  ASSUME Base, [Next]_vars
  PROVE  Base'
<1> USE Slots, BoundAssumption
    DEF Base, TypeOK, TickInv, RunningSlotIntact, Count, Absent, Image, Torn,
        diskVars, bootVars, updVars
<1>1. CASE Boot
  BY Zenon, <1>1 DEF Boot
<1>2. CASE Tick
  BY <1>2 DEF Tick
<1>3. CASE TickCount
  BY <1>3 DEF TickCount, Advance
<1>4. CASE TickSwap
  BY <1>4 DEF TickSwap, Advance
<1>5. CASE TickClear
  BY <1>5 DEF TickClear, Advance
<1>6. CASE TickSync
  BY <1>6 DEF TickSync, Sync
<1>7. CASE SignalHealthy
  BY <1>7 DEF SignalHealthy
<1>8. CASE BootcheckClear
  <2>1. checking' \in BOOLEAN
    BY <1>8, Zenon DEF BootcheckClear
  <2> QED
    BY <1>8, <2>1 DEF BootcheckClear
<1>9. CASE BootcheckTimeout
  BY Zenon, <1>9 DEF BootcheckTimeout
<1>10. ASSUME NEW k \in Image, Apply(k)
     PROVE  Base'
  BY <1>10 DEF Apply
<1>11. CASE WriteBegin
  BY <1>11 DEF WriteBegin, Swupdate, Selector
<1>12. CASE WriteEnd
  BY <1>12 DEF WriteEnd, Swupdate, Selector
<1>13. CASE Switch
  BY <1>13 DEF Switch, Swupdate, Selector
<1>14. CASE Arm
  BY <1>14 DEF Arm, Swupdate
<1>15. CASE SwitchSync
  BY <1>15 DEF SwitchSync, Swupdate, Sync
<1>16. CASE Exit
  BY <1>16 DEF Exit, Swupdate, Sync
<1>17. CASE AgentDies
  BY <1>17 DEF AgentDies
<1>18. CASE Reboot
  BY <1>18 DEF Reboot, Sync
<1>19. CASE PowerCut
  BY <1>19 DEF PowerCut
<1>20. CASE UNCHANGED vars
  BY <1>20 DEF vars, diskVars, bootVars, updVars
<1> QED
  BY Zenon, <1>1, <1>2, <1>3, <1>4, <1>5, <1>6, <1>7, <1>8, <1>9, <1>10, <1>11, <1>12, <1>13, <1>14, <1>15, <1>16, <1>17, <1>18, <1>19, <1>20 DEF Next, BootStep, Check, UpdateStep

\* The variables keep their types: in particular a count is never decremented
\* below 0 (bootcount-tick.sh).
THEOREM TypeCorrect == Spec => []TypeOK
<1>1. Init => Base
  BY BaseInit
<1>2. Base /\ [Next]_vars => Base'
  BY BaseStep
<1>3. Base => TypeOK
  BY DEF Base
<1> QED
  BY <1>1, <1>2, <1>3, PTL DEF Spec

\* swupdate never writes the root file system that is mounted: the slot that
\* swupdateSelector names is not the one the kernel was booted from.
THEOREM RunningSlotCorrect == Spec => []RunningSlotIntact
<1>1. Init => Base
  BY BaseInit
<1>2. Base /\ [Next]_vars => Base'
  BY BaseStep
<1>3. Base => RunningSlotIntact
  BY SMTT(30), ZenonT(20) DEF Base
<1> QED
  BY <1>1, <1>2, <1>3, PTL DEF Spec

-----------------------------------------------------------------------------
(* Probation.                                                               *)

LEMMA ProbationStep ==
  ASSUME Base, ProbationInv, [Next]_vars
  PROVE  ProbationInv'
<1> SUFFICES ASSUME ~disturbed'
             PROVE  (BootInv /\ UpdateInv /\ CountInv)'
  BY DEF ProbationInv
<1> USE Slots
    DEF Base, TypeOK, TickInv, RunningSlotIntact, Slot, Count, Absent, Image, Torn,
        ProbationInv, BootInv, UpdateInv, CountInv, Pending, Dirty,
        diskVars, bootVars, updVars
<1>1. CASE Boot
  BY <1>1 DEF Boot
<1>2. CASE Tick
  BY <1>2 DEF Tick
<1>3. CASE TickCount
  BY <1>3 DEF TickCount, Advance
<1>4. CASE TickSwap
  BY <1>4 DEF TickSwap, Advance
<1>5. CASE TickClear
  BY <1>5 DEF TickClear, Advance
<1>6. CASE TickSync
  BY <1>6 DEF TickSync, Sync
<1>7. CASE SignalHealthy
  BY <1>7 DEF SignalHealthy
<1>8. CASE BootcheckClear
  BY Zenon, <1>8 DEF BootcheckClear
<1>9. CASE BootcheckTimeout
  BY <1>9 DEF BootcheckTimeout
<1>10. ASSUME NEW k \in Image, Apply(k)
     PROVE  (BootInv /\ UpdateInv /\ CountInv)'
  BY Zenon, <1>10 DEF Apply
<1>11. CASE WriteBegin
  BY <1>11 DEF WriteBegin, Swupdate, Selector
<1>12. CASE WriteEnd
  BY <1>12 DEF WriteEnd, Swupdate, Selector
<1>13. CASE Switch
  BY <1>13 DEF Switch, Swupdate, Selector
<1>14. CASE Arm
  BY <1>14 DEF Arm, Swupdate
<1>15. CASE SwitchSync
  BY <1>15 DEF SwitchSync, Swupdate, Sync
<1>16. CASE Exit
  BY <1>16 DEF Exit, Swupdate, Sync
<1>17. CASE AgentDies
  BY Zenon, <1>17 DEF AgentDies
<1>18. CASE Reboot
  BY <1>18 DEF Reboot, Sync
<1>19. CASE PowerCut
  <2>1. ~disturbed /\ ~Dirty /\ cmdline' = cmdline
    BY Zenon, <1>19 DEF PowerCut
  <2>2. bootcount' = Absent <=> bootcount = Absent
    <3>1. bootcount = Absent => bootcount' = Absent
      BY Zenon, <1>19 DEF PowerCut
    <3>2. bootcount' \in {bootcount, synced.bootcount, 0}
      BY <1>19 DEF PowerCut
    <3>3. bootcount # Absent => synced.bootcount # Absent
      BY <2>1
    <3> QED
      BY <3>1, <3>2, <3>3
  <2>3. Pending => bootcount # Absent
    BY <2>1
  <2>4. pc' = "off" /\ image' = image /\ ~Dirty' /\ synced'.bootcount = bootcount'
    BY <1>19, <2>1 DEF PowerCut
  <2>5. BootInv' /\ UpdateInv' /\ ~Pending'
    BY <2>4
  <2>6. pc \notin {"clear"}
    BY SMTT(30), ZenonT(20), <2>1
  <2>7. CountInv'
    BY SMTT(30), ZenonT(20), <2>1, <2>2, <2>3, <2>4, <2>5, <2>6
  <2> QED
    BY <2>5, <2>7
<1>20. CASE UNCHANGED vars
  BY <1>20 DEF vars, diskVars, bootVars, updVars
<1> QED
  BY Zenon, <1>1, <1>2, <1>3, <1>4, <1>5, <1>6, <1>7, <1>8, <1>9, <1>10, <1>11, <1>12, <1>13, <1>14, <1>15, <1>16, <1>17, <1>18, <1>19, <1>20 DEF Next, BootStep, Check, UpdateStep

LEMMA ProbationInvariant == Spec => [](Base /\ ProbationInv)
<1>1. Init => Base /\ ProbationInv
  <2> SUFFICES ASSUME Init
               PROVE  ProbationInv
    BY BaseInit
  <2>1. image["A"] = "good"
    BY DEF Init, Slot
  <2>2. pc = "off" /\ bootcount = Absent /\ cmdline = "A" /\ synced.cmdline = "A"
    BY DEF Init
  <2> QED
    BY <2>1, <2>2 DEF ProbationInv, BootInv, UpdateInv, CountInv, Pending, Dirty
<1>2. Base /\ ProbationInv /\ [Next]_vars => (Base /\ ProbationInv)'
  BY BaseStep, ProbationStep
<1> QED
  BY <1>1, <1>2, PTL DEF Spec

\* As long as no accident disturbed an update, a rover that runs an image
\* whose agent never becomes healthy has a count to run down (bootcheck.c
\* removes it only for a healthy boot, the switch script arms it).
THEOREM BadIsOnProbationCorrect == Spec => []BadIsOnProbation
<1>1. Base /\ ProbationInv => BadIsOnProbation
  BY DEF ProbationInv, BadIsOnProbation, UpdateInv, CountInv, Pending
<1> QED
  BY <1>1, ProbationInvariant, PTL

\* ... the firmware never finds a half-written root, ...
THEOREM NeverDeadCorrect == Spec => []NeverDead
<1>1. Base /\ ProbationInv => NeverDead
  BY DEF ProbationInv, BootInv, NeverDead
<1> QED
  BY <1>1, ProbationInvariant, PTL

\* ... and the slot that bootcount-tick would revert to holds a good image.
THEOREM FallbackKeptCorrect == Spec => []FallbackKept
<1>1. Base /\ ProbationInv => FallbackKept
  BY DEF ProbationInv, CountInv, FallbackKept
<1> QED
  BY <1>1, ProbationInvariant, PTL

\* Together: what an update never costs the rover (swupdate, the postinstall script,
\* bootcount-tick.sh and bootcheck).
THEOREM UpdateIsSafeCorrect == Spec => []UpdateIsSafe
  BY TypeCorrect, BadIsOnProbationCorrect, NeverDeadCorrect, FallbackKeptCorrect, RunningSlotCorrect,
     PTL DEF UpdateIsSafe

-----------------------------------------------------------------------------
(* apply_image.                                                             *)

\* A request that is served alone owns the two files: what it has read it has
\* checked.
FilesAreMine(r) ==
  /\ at[r] \in {"bundle", "bundleCopy", "sha", "verify", "swupdate"} => swu = asked[r]
  /\ at[r] \in {"verify", "swupdate"} => want[r] \in {A!Any, swu}
  /\ at[r] = "swupdate" => skipVerify \/ swu \in Signed

ServedAlone ==
  ~overlap => /\ \A q, r \in Req : at[q] \in A!Running /\ at[r] \in A!Running => q = r
              /\ \A r \in Req : FilesAreMine(r)

ApplyInv == A!TypeOK /\ ServedAlone /\ A!InstalledAsAsked

LEMMA ApplyInit ==
  ASSUME A!Init
  PROVE  ApplyInv
<1>1. skipVerify \in BOOLEAN /\ overlap \in BOOLEAN
  BY Zenon DEF A!Init
<1>2. A!TypeOK
  BY <1>1 DEF A!Init, A!TypeOK, A!Content
<1>3. ServedAlone /\ A!InstalledAsAsked
  BY SMTT(30), ZenonT(20) DEF A!Init, ServedAlone, FilesAreMine, A!Running, A!InstalledAsAsked
<1> QED
  BY <1>2, <1>3 DEF ApplyInv

LEMMA ApplyTypeStep ==
  ASSUME A!TypeOK, NEW r \in Req, A!Refuse(r) \/ A!Accept(r) \/ A!Serve(r)
  PROVE  A!TypeOK'
<1>1. skipVerify' \in BOOLEAN /\ overlap' \in BOOLEAN
  BY Zenon DEF A!TypeOK, A!Refuse, A!Accept, A!Serve, A!Truncate, A!CopySwu, A!CopyBundle,
     A!DownloadFails, A!CheckSha, A!Verify, A!SwupdateFails, A!Swupdate, A!Fail, A!Goto
<1> USE <1>1 DEF A!TypeOK, A!Goto, A!Running, A!fileVars
<1>2. CASE A!Refuse(r)
  BY <1>2 DEF A!Refuse
<1>3. CASE A!Accept(r)
  BY <1>3 DEF A!Accept
<1>4. CASE A!Truncate(r)
  BY <1>4 DEF A!Truncate, A!Content
<1>5. CASE A!CopySwu(r)
  BY <1>5 DEF A!CopySwu, A!Copied, A!Content
<1>6. CASE A!CopyBundle(r)
  BY <1>6 DEF A!CopyBundle, A!Copied, A!Content
<1>7. CASE A!DownloadFails(r)
  BY <1>7 DEF A!DownloadFails, A!Fail
<1>8. CASE A!CheckSha(r)
  BY <1>8 DEF A!CheckSha, A!Fail
<1>9. CASE A!Verify(r)
  BY <1>9 DEF A!Verify, A!FetchTrust, A!Fail
<1>10. CASE A!SwupdateFails(r)
  BY <1>10 DEF A!SwupdateFails, A!Fail
<1>11. CASE A!Swupdate(r)
  BY SMTT(30), ZenonT(20), <1>11 DEF A!Swupdate, A!Content
<1> QED
  BY <1>2, <1>3, <1>4, <1>5, <1>6, <1>7, <1>8, <1>9, <1>10, <1>11 DEF A!Serve

LEMMA ApplyStep ==
  ASSUME ApplyInv, NEW r \in Req, A!Refuse(r) \/ A!Accept(r) \/ A!Serve(r)
  PROVE  ApplyInv'
<1>1. A!TypeOK'
  BY SMTT(30), ZenonT(20), ApplyTypeStep DEF ApplyInv
<1> SUFFICES ASSUME ~overlap'
             PROVE  (ServedAlone /\ A!InstalledAsAsked)'
  BY Zenon, <1>1 DEF ApplyInv, ServedAlone, A!InstalledAsAsked
<1> USE DEF ApplyInv, ServedAlone, FilesAreMine, A!InstalledAsAsked, A!TypeOK, A!Goto, A!Running,
            A!fileVars
<1>2. CASE A!Refuse(r)
  BY <1>2 DEF A!Refuse
<1>3. CASE A!Accept(r)
  <2>1. ~overlap /\ \A q \in Req : at[q] \notin A!Running
    BY <1>3, Zenon DEF A!Accept
  <2> QED
    BY <1>3, <2>1 DEF A!Accept
<1>4. CASE A!Truncate(r)
  BY <1>4 DEF A!Truncate
<1>5. CASE A!CopySwu(r)
  BY <1>5 DEF A!CopySwu, A!Copied
<1>6. CASE A!CopyBundle(r)
  BY <1>6 DEF A!CopyBundle, A!Copied
<1>7. CASE A!DownloadFails(r)
  BY <1>7 DEF A!DownloadFails, A!Fail
<1>8. CASE A!CheckSha(r)
  BY <1>8 DEF A!CheckSha, A!Fail
<1>9. CASE A!Verify(r)
  BY <1>9 DEF A!Verify, A!Fail
<1>10. CASE A!SwupdateFails(r)
  BY <1>10 DEF A!SwupdateFails, A!Fail
<1>11. CASE A!Swupdate(r)
  BY <1>11 DEF A!Swupdate
<1> QED
  BY Zenon, <1>2, <1>3, <1>4, <1>5, <1>6, <1>7, <1>8, <1>9, <1>10, <1>11 DEF A!Serve

\* However many apply_image requests the agent receives, and however they end,
\* requests that are served one after the other give swupdate only the artifact
\* that was asked for, with its hash, verified unless the image is a development
\* image (fetchVerifyApply).
THEOREM InstalledAsAskedCorrect == MCSpec => []InstalledAsAsked
<1>1. MCInit => ApplyInv
  BY ApplyInit DEF MCInit
<1>2. ApplyInv /\ [MCNext]_all => ApplyInv'
  <2> SUFFICES ASSUME ApplyInv, [MCNext]_all
               PROVE  ApplyInv'
    OBVIOUS
  <2>1. CASE Applies(A!Next)
    BY <2>1, ApplyStep DEF Applies, A!Next
  <2>2. CASE UNCHANGED apply
    BY <2>2 DEF apply, ApplyInv, ServedAlone, FilesAreMine, A!InstalledAsAsked, A!TypeOK
  <2> QED
    BY <2>1, <2>2 DEF MCNext, Boots, Records, all
<1>3. ApplyInv => InstalledAsAsked
  BY DEF ApplyInv, InstalledAsAsked
<1> QED
  BY <1>1, <1>2, <1>3, PTL DEF MCSpec

-----------------------------------------------------------------------------
(* The recorder.                                                            *)

LastSteps == {"footer", "rename", "sidecar"}

\* Nothing is recorded before the partials of the last process are recovered, and
\* stopLocked works on the episode that is being recorded.
StopInv ==
  /\ ep # R!None => R!Serving
  /\ op # "idle" => ep # R!None
  /\ op = "rename" => partial[ep] = "closed"
  /\ kept \subseteq 1 .. used

\* recoverPartial removes a partial whose copy has its name.
RecoverInv ==
  /\ rec.at # "next" => rec.id # R!None
  /\ rec.at = "remove" => final[rec.id] = "closed"

\* The channel of an episode is closed while its drainVideo runs, which leaves
\* an empty one.
ChannelInv ==
  /\ ep # R!None /\ ~closed[ep] => drain[ep] = "run"
  /\ op \in {"close"} \cup LastSteps => closed[ep]
  /\ op \in LastSteps => drain[ep] = "off"
  /\ \A e \in R!Ep : closed[e] /\ drain[e] = "off" => vid[e] = 0

FilesInv == StopInv /\ RecoverInv /\ R!DataKept /\ R!FinalIsWhole

LEMMA RecorderInit ==
  ASSUME R!Init
  PROVE  R!TypeOK /\ FilesInv /\ ChannelInv
<1>1. \A e \in R!Ep : sidecar[e] \in BOOLEAN /\ tmp[e] \in BOOLEAN /\ closed[e] \in BOOLEAN
  BY Zenon DEF R!Init
<1>2. R!TypeOK
  BY <1>1, RecorderAssumption DEF R!Init, R!TypeOK, R!None, R!Idle
<1>3. FilesInv
  BY DEF R!Init, FilesInv, StopInv, RecoverInv, R!DataKept, R!FinalIsWhole, R!Idle, R!Serving
<1>4. ChannelInv
  BY DEF R!Init, ChannelInv, LastSteps
<1> QED
  BY <1>2, <1>3, <1>4

RecStep == {"next", "copy", "rename", "remove", "sidecar"}

\* recoverPartial goes on with the episode it is at, or is over with it.
LEMMA RecGotoType ==
  ASSUME rec \in [at : RecStep, id : R!Ep \cup {R!None}],
         (\E step \in RecStep : R!RecGoto(step)) \/ rec' = R!Idle
  PROVE  rec' \in [at : RecStep, id : R!Ep \cup {R!None}]
<1>1. CASE rec' = R!Idle
  BY <1>1 DEF R!Idle, RecStep
<1>2. ASSUME NEW step \in RecStep, R!RecGoto(step)
      PROVE  rec' \in [at : RecStep, id : R!Ep \cup {R!None}]
  BY SMTT(30), ZenonT(20), <1>2 DEF R!RecGoto
<1> QED
  BY <1>1, <1>2

LEMMA RecorderTypeStep ==
  ASSUME R!TypeOK, StopInv, RecoverInv, R!Next
  PROVE  R!TypeOK'
<1> USE RecorderAssumption
    DEF R!TypeOK, R!Ep, R!None, R!Idle, StopInv, R!fileVars, R!goVars, R!bootVars
<1>1. ASSUME R!Die PROVE R!TypeOK'
  BY <1>1 DEF R!Die
<1>2. CASE R!StartEpisode
  BY <1>2 DEF R!StartEpisode
<1>3. CASE R!StartFails
  BY <1>3 DEF R!StartFails
<1>4. CASE R!StopEpisode
  BY <1>4 DEF R!StopEpisode, R!EnterStop
<1>5. ASSUME NEW c \in Cam, R!RemoveTap(c) PROVE R!TypeOK'
  BY <1>5 DEF R!RemoveTap
<1>6. CASE R!CloseVid
  BY SMTT(30), ZenonT(20), <1>6 DEF R!CloseVid
<1>7. CASE R!AwaitDrained
  BY <1>7 DEF R!AwaitDrained
<1>8. CASE R!Footer
  BY ZenonT(40), <1>8 DEF R!Footer, R!Leave
<1>9. CASE R!Rename
  BY SMTT(30), ZenonT(20), <1>9 DEF R!Rename, R!Leave
<1>10. CASE R!WriteSidecar
  BY Zenon, <1>10 DEF R!WriteSidecar, R!Leave
<1>11. ASSUME NEW c \in Cam, R!Snapshot(c) PROVE R!TypeOK'
  BY <1>11 DEF R!Snapshot
<1>12. ASSUME NEW c \in Cam, R!CallTap(c) PROVE R!TypeOK'
  <2>1. vid' \in [R!Ep -> 0 .. Buf]
    <3>1. CASE vid[fan[c]] < Buf /\ vid' = [vid EXCEPT ![fan[c]] = @ + 1]
      BY <3>1, <1>12 DEF R!CallTap
    <3> QED
      BY <3>1, <1>12 DEF R!CallTap
  <2> QED
    BY SMTT(30), ZenonT(20), <1>12, <2>1 DEF R!CallTap
<1>13. ASSUME NEW c \in Cam, R!Panic(c) PROVE R!TypeOK'
  BY SMTT(30), ZenonT(20), <1>1, <1>13 DEF R!Panic
<1>14. ASSUME NEW e \in R!Ep, R!Drain(e) PROVE R!TypeOK'
  <2>1. vid' \in [R!Ep -> 0 .. Buf]
    <3>1. CASE vid[e] > 0 /\ vid' = [vid EXCEPT ![e] = @ - 1]
      BY <3>1, <1>14
    <3> QED
      BY <3>1, <1>14 DEF R!Drain
  <2>2. drain' \in [R!Ep -> {"off", "run"}]
    BY <1>14 DEF R!Drain
  <2> QED
    BY SMTT(30), ZenonT(20), <1>14, <2>1, <2>2 DEF R!Drain
<1>15. ASSUME NEW e \in R!Ep, R!WatchTick(e) PROVE R!TypeOK'
  BY <1>15 DEF R!WatchTick
<1>16. ASSUME NEW e \in R!Ep, R!WatchEnds(e) PROVE R!TypeOK'
  BY <1>16 DEF R!WatchEnds
<1>17. ASSUME NEW e \in R!Ep, R!AutoStop(e) PROVE R!TypeOK'
  BY <1>17 DEF R!AutoStop, R!EnterStop
<1>18. ASSUME NEW e \in R!Ep, R!Delete(e) PROVE R!TypeOK'
  BY <1>18 DEF R!Delete
<1>19. CASE R!DeleteSidecar
  BY <1>19 DEF R!DeleteSidecar
<1>20. ASSUME NEW e \in R!Ep, R!RecoverNext(e) PROVE R!TypeOK'
  <2>1. rec' \in [at : RecStep, id : R!Ep \cup {R!None}]
    BY <1>20 DEF R!RecoverNext, RecStep
  <2>2. tmp' \in [R!Ep -> BOOLEAN] /\ partial' \in [R!Ep -> {"no", "open", "closed"}]
        /\ final' \in [R!Ep -> {"no", "open", "closed"}]
    BY Zenon, <1>20 DEF RecoverInv, R!RecoverNext
  <2>3. todo' \subseteq R!Ep
    BY <1>20 DEF R!RecoverNext
  <2>4. UNCHANGED <<sidecar, kept, ep, used, mu, op, watch, drain, vid, closed, tap, fan, gone, crashes>>
    BY <1>20 DEF R!RecoverNext
  <2> QED
    BY <2>1, <2>2, <2>3, <2>4 DEF RecStep
<1>21. CASE R!RecoverCopy
  <2>1. rec' \in [at : RecStep, id : R!Ep \cup {R!None}]
    BY SMTT(30), ZenonT(20), <1>21, RecGotoType DEF R!RecoverCopy, RecStep
  <2>2. tmp' \in [R!Ep -> BOOLEAN] /\ partial' \in [R!Ep -> {"no", "open", "closed"}]
        /\ final' \in [R!Ep -> {"no", "open", "closed"}]
    BY Zenon, <1>21 DEF RecoverInv, R!RecoverCopy
  <2>3. UNCHANGED <<sidecar, kept, ep, used, mu, op, watch, drain, vid, closed, tap, fan, gone, crashes>>
    BY <1>21 DEF R!RecoverCopy
  <2>4. UNCHANGED todo
    BY <1>21 DEF R!RecoverCopy
  <2> QED
    BY <2>1, <2>2, <2>3, <2>4 DEF RecStep
<1>22. CASE R!RecoverRename
  <2>1. rec' \in [at : RecStep, id : R!Ep \cup {R!None}]
    BY SMTT(30), ZenonT(20), <1>22, RecGotoType DEF R!RecoverRename, RecStep
  <2>2. tmp' \in [R!Ep -> BOOLEAN] /\ partial' \in [R!Ep -> {"no", "open", "closed"}]
        /\ final' \in [R!Ep -> {"no", "open", "closed"}]
    BY ZenonT(40), <1>22 DEF RecoverInv, R!RecoverRename
  <2>3. UNCHANGED <<sidecar, kept, ep, used, mu, op, watch, drain, vid, closed, tap, fan, gone, crashes>>
    BY <1>22 DEF R!RecoverRename
  <2>4. UNCHANGED todo
    BY <1>22 DEF R!RecoverRename
  <2> QED
    BY <2>1, <2>2, <2>3, <2>4 DEF RecStep
<1>23. CASE R!RecoverRemove
  <2>1. rec' \in [at : RecStep, id : R!Ep \cup {R!None}]
    BY SMTT(30), ZenonT(20), <1>23, RecGotoType DEF R!RecoverRemove, RecStep
  <2>2. tmp' \in [R!Ep -> BOOLEAN] /\ partial' \in [R!Ep -> {"no", "open", "closed"}]
        /\ final' \in [R!Ep -> {"no", "open", "closed"}]
    BY ZenonT(40), <1>23 DEF RecoverInv, R!RecoverRemove
  <2>3. UNCHANGED <<sidecar, kept, ep, used, mu, op, watch, drain, vid, closed, tap, fan, gone, crashes>>
    BY <1>23 DEF R!RecoverRemove
  <2>4. UNCHANGED todo
    BY <1>23 DEF R!RecoverRemove
  <2> QED
    BY <2>1, <2>2, <2>3, <2>4 DEF RecStep
<1>24. CASE R!RecoverSidecar
  BY ZenonT(40), <1>24 DEF R!RecoverSidecar
<1> QED
  BY Zenon, <1>1, <1>2, <1>3, <1>4, <1>5, <1>6, <1>7, <1>8, <1>9, <1>10, <1>11, <1>12, <1>13, <1>14,
     <1>15, <1>16, <1>17, <1>18, <1>19, <1>20, <1>21, <1>22, <1>23, <1>24
     DEF R!Next, R!StopStep, R!RecoverStep

LEMMA FilesStep ==
  ASSUME R!TypeOK, FilesInv, R!Next
  PROVE  FilesInv'
<1> USE RecorderAssumption
    DEF R!TypeOK, R!Ep, R!None, R!Idle, R!Serving, R!Locked, R!fileVars, R!goVars, R!bootVars,
        FilesInv, StopInv, RecoverInv, R!DataKept, R!FinalIsWhole
<1>1. ASSUME R!Die PROVE FilesInv'
  BY SMTT(30), ZenonT(20), <1>1 DEF R!Die
<1>2. CASE R!StartEpisode
  BY <1>2 DEF R!StartEpisode
<1>3. CASE R!StartFails
  BY SMTT(30), ZenonT(20), <1>3 DEF R!StartFails
<1>4. CASE R!StopEpisode
  BY SMTT(30), ZenonT(20), <1>4 DEF R!StopEpisode, R!EnterStop
<1>5. ASSUME NEW c \in Cam, R!RemoveTap(c) PROVE FilesInv'
  BY SMTT(30), ZenonT(20), <1>5 DEF R!RemoveTap
<1>6. CASE R!CloseVid
  BY SMTT(30), ZenonT(20), <1>6 DEF R!CloseVid
<1>7. CASE R!AwaitDrained
  BY SMTT(30), ZenonT(20), <1>7 DEF R!AwaitDrained
<1>8. CASE R!Footer
  BY SMTT(30), ZenonT(20), <1>8 DEF R!Footer, R!Leave
<1>9. CASE R!Rename
  BY SMTT(30), ZenonT(20), <1>9 DEF R!Rename, R!Leave
<1>10. CASE R!WriteSidecar
  BY SMTT(30), ZenonT(20), <1>10 DEF R!WriteSidecar, R!Leave
<1>11. ASSUME NEW c \in Cam, R!Snapshot(c) PROVE FilesInv'
  BY SMTT(30), ZenonT(20), <1>11 DEF R!Snapshot
<1>12. ASSUME NEW c \in Cam, R!CallTap(c) PROVE FilesInv'
  BY SMTT(30), ZenonT(20), <1>12 DEF R!CallTap
<1>13. ASSUME NEW c \in Cam, R!Panic(c) PROVE FilesInv'
  BY SMTT(30), ZenonT(20), <1>1, <1>13 DEF R!Panic
<1>14. ASSUME NEW e \in R!Ep, R!Drain(e) PROVE FilesInv'
  BY SMTT(30), ZenonT(20), <1>14 DEF R!Drain
<1>15. ASSUME NEW e \in R!Ep, R!WatchTick(e) PROVE FilesInv'
  BY SMTT(30), ZenonT(20), <1>15 DEF R!WatchTick
<1>16. ASSUME NEW e \in R!Ep, R!WatchEnds(e) PROVE FilesInv'
  BY SMTT(30), ZenonT(20), <1>16 DEF R!WatchEnds
<1>17. ASSUME NEW e \in R!Ep, R!AutoStop(e) PROVE FilesInv'
  BY SMTT(30), ZenonT(20), <1>17 DEF R!AutoStop, R!EnterStop
<1>18. ASSUME NEW e \in R!Ep, R!Delete(e) PROVE FilesInv'
  BY SMTT(30), ZenonT(20), <1>18 DEF R!Delete
<1>19. CASE R!DeleteSidecar
  BY SMTT(30), ZenonT(20), <1>19 DEF R!DeleteSidecar
<1>20. ASSUME NEW e \in R!Ep, R!RecoverNext(e) PROVE FilesInv'
  BY <1>20 DEF R!RecoverNext
<1>21. CASE R!RecoverCopy
  BY <1>21 DEF R!RecoverCopy, R!RecGoto
<1>22. CASE R!RecoverRename
  BY SMTT(30), ZenonT(20), <1>22 DEF R!RecoverRename, R!RecGoto
<1>23. CASE R!RecoverRemove
  BY <1>23 DEF R!RecoverRemove, R!RecGoto
<1>24. CASE R!RecoverSidecar
  BY SMTT(30), ZenonT(20), <1>24 DEF R!RecoverSidecar
<1> QED
  BY ZenonT(40), <1>1, <1>2, <1>3, <1>4, <1>5, <1>6, <1>7, <1>8, <1>9, <1>10, <1>11, <1>12, <1>13, <1>14,
     <1>15, <1>16, <1>17, <1>18, <1>19, <1>20, <1>21, <1>22, <1>23, <1>24
     DEF R!Next, R!StopStep, R!RecoverStep

LEMMA ChannelStep ==
  ASSUME R!TypeOK, StopInv, ChannelInv, R!Next
  PROVE  ChannelInv'
<1> USE RecorderAssumption
    DEF R!TypeOK, R!Ep, R!None, R!Serving, R!Locked, R!fileVars, R!goVars, R!bootVars,
        StopInv, ChannelInv, LastSteps
<1>1. ASSUME R!Die PROVE ChannelInv'
  BY SMTT(30), ZenonT(20), <1>1 DEF R!Die
<1>2. CASE R!StartEpisode
  BY SMTT(30), ZenonT(20), <1>2 DEF R!StartEpisode
<1>3. CASE R!StartFails
  BY SMTT(30), ZenonT(20), <1>3 DEF R!StartFails
<1>4. CASE R!StopEpisode
  BY SMTT(30), ZenonT(20), <1>4 DEF R!StopEpisode, R!EnterStop
<1>5. ASSUME NEW c \in Cam, R!RemoveTap(c) PROVE ChannelInv'
  BY SMTT(30), ZenonT(20), <1>5 DEF R!RemoveTap
<1>6. CASE R!CloseVid
  BY SMTT(30), ZenonT(20), <1>6 DEF R!CloseVid
<1>7. CASE R!AwaitDrained
  BY SMTT(30), ZenonT(20), <1>7 DEF R!AwaitDrained
<1>8. CASE R!Footer
  BY SMTT(30), ZenonT(20), <1>8 DEF R!Footer, R!Leave
<1>9. CASE R!Rename
  BY SMTT(30), ZenonT(20), <1>9 DEF R!Rename, R!Leave
<1>10. CASE R!WriteSidecar
  BY SMTT(30), ZenonT(20), <1>10 DEF R!WriteSidecar, R!Leave
<1>11. ASSUME NEW c \in Cam, R!Snapshot(c) PROVE ChannelInv'
  BY SMTT(30), ZenonT(20), <1>11 DEF R!Snapshot
<1>12. ASSUME NEW c \in Cam, R!CallTap(c) PROVE ChannelInv'
  BY SMTT(30), ZenonT(20), <1>12 DEF R!CallTap
<1>13. ASSUME NEW c \in Cam, R!Panic(c) PROVE ChannelInv'
  BY SMTT(30), ZenonT(20), <1>1, <1>13 DEF R!Panic
<1>14. ASSUME NEW e \in R!Ep, R!Drain(e) PROVE ChannelInv'
  BY SMTT(30), ZenonT(20), <1>14 DEF R!Drain
<1>15. ASSUME NEW e \in R!Ep, R!WatchTick(e) PROVE ChannelInv'
  BY SMTT(30), ZenonT(20), <1>15 DEF R!WatchTick
<1>16. ASSUME NEW e \in R!Ep, R!WatchEnds(e) PROVE ChannelInv'
  BY SMTT(30), ZenonT(20), <1>16 DEF R!WatchEnds
<1>17. ASSUME NEW e \in R!Ep, R!AutoStop(e) PROVE ChannelInv'
  BY SMTT(30), ZenonT(20), <1>17 DEF R!AutoStop, R!EnterStop
<1>18. ASSUME NEW e \in R!Ep, R!Delete(e) PROVE ChannelInv'
  BY SMTT(30), ZenonT(20), <1>18 DEF R!Delete
<1>19. CASE R!DeleteSidecar
  BY SMTT(30), ZenonT(20), <1>19 DEF R!DeleteSidecar
<1>20. ASSUME NEW e \in R!Ep, R!RecoverNext(e) PROVE ChannelInv'
  BY <1>20 DEF R!RecoverNext
<1>21. CASE R!RecoverCopy
  BY <1>21 DEF R!RecoverCopy, R!RecGoto
<1>22. CASE R!RecoverRename
  BY <1>22 DEF R!RecoverRename, R!RecGoto
<1>23. CASE R!RecoverRemove
  BY SMTT(30), ZenonT(20), <1>23 DEF R!RecoverRemove, R!RecGoto
<1>24. CASE R!RecoverSidecar
  BY <1>24 DEF R!RecoverSidecar
<1> QED
  BY ZenonT(40), <1>1, <1>2, <1>3, <1>4, <1>5, <1>6, <1>7, <1>8, <1>9, <1>10, <1>11, <1>12, <1>13, <1>14,
     <1>15, <1>16, <1>17, <1>18, <1>19, <1>20, <1>21, <1>22, <1>23, <1>24
     DEF R!Next, R!StopStep, R!RecoverStep

RecorderInv == R!TypeOK /\ FilesInv /\ ChannelInv

LEMMA RecorderStep ==
  ASSUME RecorderInv, [MCNext]_all
  PROVE  RecorderInv'
<1>1. CASE R!Next
  BY SMTT(30), ZenonT(20), <1>1, RecorderTypeStep, FilesStep, ChannelStep DEF RecorderInv, FilesInv
<1>2. CASE UNCHANGED episodes
  <2>1. R!TypeOK'
    BY <1>2, Zenon DEF episodes, RecorderInv, R!TypeOK
  <2>2. StopInv' /\ ChannelInv'
    BY <1>2, Zenon DEF episodes, RecorderInv, FilesInv, ChannelInv, StopInv, R!Serving
  <2>3. RecoverInv' /\ R!DataKept' /\ R!FinalIsWhole'
    BY <1>2, Zenon DEF episodes, RecorderInv, FilesInv, RecoverInv, R!DataKept, R!FinalIsWhole, R!Serving
  <2> QED
    BY <2>1, <2>2, <2>3, Zenon DEF RecorderInv, FilesInv
<1> QED
  BY <1>1, <1>2 DEF MCNext, Boots, Applies, Records, all

\* For any number of episodes, cameras and deaths of the agent: a recorded episode
\* keeps its container wherever the agent dies, a file with the final name is a whole
\* container (finalize, recoverPartial), and the footer is written after the last
\* frame (stopLocked, drainVideo).
THEOREM EpisodeIsKeptCorrect == MCSpec => []EpisodeIsKept
<1>1. MCInit => RecorderInv
  BY RecorderInit DEF MCInit, RecorderInv
<1>2. RecorderInv /\ [MCNext]_all => RecorderInv'
  BY RecorderStep
<1>3. RecorderInv => EpisodeIsKept
  BY DEF RecorderInv, EpisodeIsKept, FilesInv, ChannelInv, StopInv, R!FlushedBeforeFooter, LastSteps,
         R!TypeOK, R!None
<1> QED
  BY <1>1, <1>2, <1>3, PTL DEF MCSpec

\* A tick of the watch goroutine that waited for Recorder.mu stops the episode it
\* belongs to or none, however many began and ended meanwhile (autoStop).
THEOREM AutoStopsItsOwnCorrect == MCSpec => AutoStopsItsOwn
<1> DEFINE Own == \A e \in R!Ep :
      watch[e] = "want" /\ watch'[e] = "off" /\ mu' = "watch" /\ mu = "free" => ep = e
<1>1. MCInit => RecorderInv
  BY RecorderInit DEF MCInit, RecorderInv
<1>2. RecorderInv /\ [MCNext]_all => RecorderInv'
  BY RecorderStep
<1>3. RecorderInv /\ [MCNext]_all => [Own]_(R!vars)
  <2> SUFFICES ASSUME RecorderInv, R!Next
               PROVE  Own
    BY ZenonT(40) DEF MCNext, Boots, Applies, Records, all, episodes, R!vars, R!fileVars, R!goVars, R!bootVars
  <2> SUFFICES ASSUME NEW e \in R!Ep, watch[e] = "want", watch'[e] = "off", mu' = "watch", mu = "free"
               PROVE  ep = e
    OBVIOUS
  <2> USE DEF R!goVars
  <2>1. ~R!StopStep
    BY Zenon DEF R!StopStep, R!RemoveTap, R!CloseVid, R!AwaitDrained, R!Footer, R!Rename, R!WriteSidecar, R!Leave
  <2>2. ~R!StartEpisode /\ ~R!StartFails /\ ~R!StopEpisode /\ ~R!DeleteSidecar /\ ~R!RecoverStep /\ ~R!Die
    BY Zenon DEF R!StartEpisode, R!StartFails, R!StopEpisode, R!EnterStop, R!DeleteSidecar, R!RecoverStep,
           R!RecoverNext, R!RecoverCopy, R!RecoverRename, R!RecoverRemove, R!RecoverSidecar, R!Die
  <2>3. ASSUME NEW c \in Cam
        PROVE  ~R!Snapshot(c) /\ ~R!CallTap(c) /\ ~R!Panic(c)
    BY DEF R!Snapshot, R!CallTap, R!Panic, R!Die
  <2>4. ASSUME NEW f \in R!Ep
        PROVE  ~R!Drain(f) /\ ~R!WatchTick(f) /\ ~R!WatchEnds(f) /\ ~R!Delete(f)
    BY DEF R!Drain, R!WatchTick, R!WatchEnds, R!Delete
  <2>5. PICK f \in R!Ep : R!AutoStop(f)
    BY Zenon, <2>1, <2>2, <2>3, <2>4 DEF R!Next
  <2>6. f = e
    BY <2>5 DEF R!AutoStop, RecorderInv, R!TypeOK
  <2> QED
    BY <2>5, <2>6 DEF R!AutoStop
<1> QED
  BY <1>1, <1>2, <1>3, PTL DEF MCSpec, AutoStopsItsOwn, R!AutoStopsItsOwn
=============================================================================
