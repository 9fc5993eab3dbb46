------------------------------ MODULE MCStorage ------------------------------
(***************************************************************************)
(* What the agent keeps on disk for TLC, side by side: the two root file   *)
(* systems (OtaBoot), the update under way (ApplyImage) and the episodes   *)
(* (Recorder).  A behaviour is one of them; the others stay in an initial  *)
(* state.                                                                  *)
(***************************************************************************)
EXTENDS OtaBoot

CONSTANTS Req, Artifact, Signed, Cam, MaxEp, Buf, MaxCrashes

VARIABLES
  part,
  skipVerify, at, asked, want, swu, bundle, installed, reply, failed, trust, overlap,
  partial, final, sidecar, tmp, kept, ep, used, mu, op, watch, drain, vid, closed, tap, fan, todo,
  rec, gone, crashes

A == INSTANCE ApplyImage WITH pc <- at
R == INSTANCE Recorder

ASSUME RecorderAssumption == MaxEp \in Nat /\ Buf \in Nat /\ MaxCrashes \in Nat
ASSUME SignedAssumption == Signed \subseteq Artifact /\ {A!Any, A!Nothing, A!Mixed} \cap Artifact = {}

apply == <<skipVerify, at, asked, want, swu, bundle, installed, reply, failed, trust, overlap>>
episodes == <<partial, final, sidecar, tmp, kept, ep, used, mu, op, watch, drain, vid, closed, tap,
              fan, todo, rec, gone, crashes>>
all == <<part, vars, apply, episodes>>

Boots(S) == part = "boot" /\ S /\ UNCHANGED <<part, apply, episodes>>
Applies(S) == part = "apply" /\ S /\ UNCHANGED <<part, vars, episodes>>
Records(S) == part = "recorder" /\ S /\ UNCHANGED <<part, vars, apply>>

MCInit ==
  /\ part \in {"boot", "apply", "recorder"} /\ Init /\ A!Init /\ R!Init
  /\ part # "apply" => /\ ~skipVerify /\ want = [r \in Req |-> A!Any]
                       /\ asked = [r \in Req |-> CHOOSE a \in Artifact : TRUE]

MCNext == Boots(Next) \/ Applies(A!Next) \/ Records(R!Next)

MCSpec == MCInit /\ [][MCNext]_all

\* Scripts and services run to their end, and a rover that stays up is rebooted
\* some day; a goroutine of apply_image goes on until it returns, provided the
\* servers it asks answer; the recorder's goroutines run when they can.  The
\* liveness properties below are stated under the fairness of their part.
BootFairness ==
  WF_all(Boots(BootStep)) /\ WF_all(Boots(Check)) /\ WF_all(Boots(UpdateStep)) /\ WF_all(Boots(Reboot))
ApplyFairness == \A r \in Req : WF_all(Applies(A!Serve(r)))
RecorderFairness ==
  /\ WF_all(Records(R!StopStep))
  /\ \A e \in 1 .. MaxEp : WF_all(Records(R!Drain(e))) /\ WF_all(Records(R!AutoStop(e)))

-----------------------------------------------------------------------------
\* A rover that came up on a bad image is back on a good one some reboots later,
\* unless the update was disturbed (bootcount-tick.sh); and whatever happens a
\* probation ends, by bootcheck or by the revert, or the rover no longer boots.
BadImageIsLeft == BootFairness => Recovers /\ ProbationEnds

\* swupdate is only given what was asked for and verified, when requests do not
\* overlap (fetchVerifyApply).
InstalledAsAsked == A!TypeOK /\ A!InstalledAsAsked

\* A recorded episode keeps its container wherever the agent dies, a file with the
\* final name is a whole container (finalize, recoverPartial), and a stop writes the
\* footer after the last frame (stopLocked, drainVideo).
EpisodeIsKept == R!TypeOK /\ R!DataKept /\ R!FinalIsWhole /\ R!FlushedBeforeFooter

\* What the agent began it ends: the outcome of an acknowledged update is never lost
\* (fetchVerifyApply, OnApplyFailed), and a stop ends although it holds the mutex
\* while it waits for drainVideo (stopLocked).
WorkEnds == (ApplyFairness => A!Reported) /\ (RecorderFairness => R!StopEnds)

\* The watch goroutine of one episode never stops another (autoStop).
AutoStopsItsOwn == R!AutoStopsItsOwn
=============================================================================
