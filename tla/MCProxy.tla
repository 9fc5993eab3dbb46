------------------------------- MODULE MCProxy -------------------------------
(***************************************************************************)
(* The services of the proxy for TLC, side by side: the rovers (Fleet)     *)
(* and the modules they should run (Registry).  A behaviour is one of      *)
(* them; the other stays in its initial state.  Requests, and the rovers   *)
(* of Fleet, can be exchanged.                                             *)
(***************************************************************************)
EXTENDS Fleet, TLC

CONSTANTS Target, San, MaxVer, MaxRequests

VARIABLES
  part,
  latest, registry, versions, blob, static, desired, got, online, reqs, requests, asked,
  tangled, lost, mixed, behind

R == INSTANCE Registry WITH Rover <- Target, MaxOps <- MaxRequests,
                            h <- reqs, ops <- requests, crossed <- mixed

registryVars == <<latest, registry, versions, blob, static, desired, got, online, reqs, requests,
                  asked, tangled, lost, mixed, behind>>
all == <<part, vars, registryVars>>

MCInit ==
  /\ part \in {"fleet", "registry"}
  /\ Init /\ R!Init

MCNext ==
  \/ part = "fleet" /\ Next /\ UNCHANGED <<part, registryVars>>
  \/ part = "registry" /\ R!Next /\ UNCHANGED <<part, vars>>

MCSpec == MCInit /\ [][MCNext]_all

Symmetry == Permutations(Rover) \cup Permutations(Handler)

-----------------------------------------------------------------------------
\* The tables, the hub and the connections say the same: an enrolled rover is
\* served, a deleted one is out, no identity file works for a rover the table does
\* not know, and a command is relayed once (newEnrollHandler, newDeleteRoverHandler,
\* restoreRoverAccounts, cmdrelay.handle).
FleetIsTrue ==
  part = "fleet" => TypeOK /\ EnrolledIsServed /\ DeletedIsOut /\ NoGhosts /\ RelayedOnce

\* A rover was told what it should run, unless a push was lost or requests about it
\* overlapped; what an admin decided for it holds, off auto-update the version chosen
\* for it, on auto-update the newest a check brought, and the config typed for it; and
\* the bytes served for a version are the ones its checksum names (HandleSetDesired,
\* HandleDeploy, HandleUnpin, CheckModule, SetDesiredVersion, Put, RepairStatic).
RegistryIsTrue ==
  part = "registry" =>
    /\ R!TypeOK /\ R!RoverIsTold /\ R!ArtifactsMatch
    /\ R!AdminWins /\ R!AutoFollows /\ R!ConfigIsKept
=============================================================================
