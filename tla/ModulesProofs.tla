---------------------------- MODULE ModulesProofs ----------------------------
(***************************************************************************)
(* The module manager runs what is wanted, records what is attached, keeps *)
(* its desired sets across a restart and never deletes the image of a      *)
(* module it left running, for every set of modules, versions, configs and *)
(* HTTP handlers. The invariant and the effects of the steps are those of  *)
(* ModulesSteps.                                                           *)
(***************************************************************************)
EXTENDS ModulesSteps

-----------------------------------------------------------------------------
(* A pass keeps the invariant.                                              *)

\* What the pass has achieved stays achieved.
LEMMA PhaseStep ==
  ASSUME TypeOK, NEW t \in Thread, LocalOK(t), OnlyAttachedRuns, PhaseOK(t), RecordOK, RunOK, PassDoes(t)
  PROVE  th'[t].pc # "idle" => PhaseOK(t)'
<1> USE DEF Detaching, Attaching, Syncing, InPass, sets, record, plant, NoVer
<1>0. /\ current \in [Id -> Ver \cup {NoVer}] /\ currentConfig \in [Id -> Cfg \cup {NoCfg}]
      /\ attached \in [Id -> Ver \cup {NoVer}] /\ unit \in [Id -> Cfg \cup {Off}]
      /\ configFile \in [Id -> Cfg \cup {NoCfg}] /\ th[t].left \subseteq Id
  BY Zenon, Fields DEF TypeOK
<1>1. CASE MergeDoes(t)
  BY Zenon, <1>1, <1>0 DEF MergeDoes, PhaseOK, LocalOK, Fits, Served, Merged
<1>2. CASE DiffDoes(t)
  <2>1. th[t].pc = "diff" /\ UNCHANGED <<current, currentConfig>> /\ Merged' = Merged
    BY <1>2 DEF DiffDoes, Merged
  <2>2. th[t].want = Merged /\ \A j \in Id \ th[t].left : Fits(t, j)
    BY <2>1 DEF PhaseOK
  <2>3. ASSUME NEW i \in th[t].left,
               Moves(t, IF current[i] \notin {NoVer, th[t].want[i].ver} THEN "stop" ELSE "diff",
                     th[t].left \ {i}, i, th[t].failed)
        PROVE  PhaseOK(t)'
    <3>1. /\ th'[t].want = th[t].want /\ th'[t].left = th[t].left \ {i} /\ th'[t].at = i
          /\ th'[t].pc = IF current[i] \notin {NoVer, th[t].want[i].ver} THEN "stop" ELSE "diff"
      BY <2>3 DEF Moves
    <3>2. \A j \in Id \ th[t].left : Fits(t, j)'
      BY <2>1, <2>2, <3>1 DEF Fits
    <3>3. th'[t].pc = "diff" => Fits(t, i)'
      BY <2>1, <3>1 DEF Fits
    <3> QED
      BY Zenon, <2>1, <2>2, <3>1, <3>2, <3>3 DEF PhaseOK
  <2>4. ASSUME th[t].left = {},
               Moves(t, "want", {i \in Id : th[t].want[i] # Nothing}, th[t].at, th[t].failed)
        PROVE  PhaseOK(t)'
    <3>1. /\ th'[t].want = th[t].want /\ th'[t].left = {i \in Id : th[t].want[i] # Nothing}
          /\ th'[t].pc = "want"
      BY <2>4 DEF Moves
    <3>2. \A j \in Id : Fits(t, j)'
      BY Zenon, <2>1, <2>2, <2>4, <3>1 DEF Fits
    <3>3. \A j \in Id \ th'[t].left : Served(t, j)'
      BY <3>1 DEF Served
    <3> QED
      BY Zenon, <2>1, <2>2, <3>1, <3>2, <3>3 DEF PhaseOK
  <2> QED
    BY Zenon, <1>2, <2>3, <2>4 DEF DiffDoes
<1>3. CASE StopDoes(t)
  BY Zenon, <1>3, <1>0 DEF StopDoes, Goes, Moves, PhaseOK, LocalOK, Fits, Served, Merged
<1>4. CASE DetachDoes(t)
  BY ZenonT(40), <1>4, <1>0 DEF DetachDoes, Goes, Moves, Detachable, PhaseOK, LocalOK, Fits, Served, Merged
<1>5. CASE ReturnDoes(t)
  <2>1. th'[t].pc \in {"idle", "rm"}
    BY <1>5 DEF ReturnDoes, Rests, Fresh
  <2> QED
    BY Zenon, <2>1 DEF PhaseOK
<1>6. CASE WantDoes(t)
  <2>1. PICK i \in th[t].left :
          Moves(t, IF current[i] # th[t].want[i].ver THEN "fetch"
                   ELSE IF currentConfig[i] # th[t].want[i].cfg THEN "sync" ELSE "want",
                th[t].left \ {i}, i, th[t].failed)
    BY Zenon, <1>6 DEF WantDoes
  <2>2. /\ th'[t].want = th[t].want /\ th'[t].left = th[t].left \ {i} /\ th'[t].at = i
        /\ th'[t].failed = th[t].failed
        /\ th'[t].pc = IF current[i] # th[t].want[i].ver THEN "fetch"
                       ELSE IF currentConfig[i] # th[t].want[i].cfg THEN "sync" ELSE "want"
    BY Zenon, <2>1 DEF Moves
  <2>3. th[t].pc = "want" /\ UNCHANGED <<current, currentConfig>> /\ Merged' = Merged
    BY Zenon, <1>6 DEF WantDoes, Merged
  <2>4. th[t].want = Merged /\ (\A j \in Id : Fits(t, j)) /\ \A j \in Id \ th[t].left : Served(t, j)
    BY <2>3 DEF PhaseOK
  <2>5. \A j \in Id : Fits(t, j)'
    BY Zenon, <2>2, <2>3, <2>4 DEF Fits
  <2>6. \A j \in Id \ th[t].left : Served(t, j)'
    BY Zenon, <2>2, <2>3, <2>4 DEF Served
  <2>7. th'[t].pc = "want" => Served(t, i)'
    BY <2>2, <2>3 DEF Served
  <2>8. \A j \in Id : j \notin th'[t].left /\ j # i => Served(t, j)'
    BY Zenon, <2>2, <2>6
  <2>9. i \in Id /\ (th'[t].pc = "fetch" => current'[i] = NoVer) /\ (th'[t].pc = "sync" => current'[i] = th[t].want[i].ver)
    BY <1>0, <2>2, <2>3, <2>4 DEF Fits
  <2>10. th'[t].pc \in {"fetch", "sync", "want"} /\ th'[t].want = Merged'
    BY <2>2, <2>3, <2>4
  <2>11. \A j \in Id \ th'[t].left : th'[t].pc = "want" => Served(t, j)'
    BY Zenon, <2>7, <2>8
  <2> QED
    BY <2>2, <2>5, <2>8, <2>9, <2>10, <2>11 DEF PhaseOK
<1>7. CASE SkipDoes(t)
  <2>1. /\ th'[t].want = th[t].want /\ th'[t].left = th[t].left /\ th'[t].at = th[t].at
        /\ th'[t].failed = th[t].failed \cup {th[t].at} /\ th'[t].pc = "want"
    BY Zenon, <1>7 DEF SkipDoes, Skips, Moves
  <2>2. th[t].pc \in Attaching \cup Syncing /\ UNCHANGED <<current, currentConfig>> /\ Merged' = Merged
    BY Zenon, <1>7 DEF SkipDoes, Merged
  <2>3. /\ th[t].want = Merged /\ \A j \in Id : Fits(t, j)
        /\ \A j \in Id \ (th[t].left \cup {th[t].at}) : Served(t, j)
    BY <2>2 DEF PhaseOK
  <2>4. \A j \in Id : Fits(t, j)'
    BY Zenon, <2>1, <2>2, <2>3 DEF Fits
  <2>5. \A j \in Id \ th[t].left : Served(t, j)'
    BY <2>1, <2>2, <2>3 DEF Served
  <2> QED
    BY <2>1, <2>2, <2>3, <2>4, <2>5 DEF PhaseOK
<1>8. CASE FetchDoes(t)
  <2>1. /\ th[t].pc \in {"fetch", "attach"} /\ th'[t].pc \in {"attach", "retryStop"}
        /\ th'[t].want = th[t].want /\ th'[t].left = th[t].left /\ th'[t].at = th[t].at
        /\ th'[t].failed = th[t].failed
    BY <1>8 DEF FetchDoes, Goes, Moves
  <2>2. UNCHANGED <<current, currentConfig>> /\ Merged' = Merged
    BY <1>8 DEF FetchDoes, Merged
  <2> QED
    BY ZenonT(40), <2>1, <2>2 DEF PhaseOK, Fits, Served
<1>9. CASE AttachDoes(t)
  <2>1. /\ th[t].pc \in {"attach", "retryAttach"} /\ th'[t].pc \in {"creds"}
        /\ th'[t].want = th[t].want /\ th'[t].left = th[t].left /\ th'[t].at = th[t].at
        /\ th'[t].failed = th[t].failed
    BY <1>9 DEF AttachDoes, Goes, Moves
  <2>2. UNCHANGED <<current, currentConfig, unit>> /\ Merged' = Merged
    BY Zenon, <1>9 DEF AttachDoes, Merged
  <2>3. th[t].at \in Id /\ attached'[th[t].at] = th[t].want[th[t].at].ver /\ unit[th[t].at] = Off
    BY Zenon, <1>9, <2>1 DEF AttachDoes, TypeOK, LocalOK, OnlyAttachedRuns
  <2> QED
    BY ZenonT(40), <2>1, <2>2, <2>3 DEF PhaseOK, Fits, Served
<1>10. CASE RetryStopDoes(t)
  <2>1. /\ th[t].pc = "retryStop" /\ th'[t].pc = "retryDetach"
        /\ th'[t].want = th[t].want /\ th'[t].left = th[t].left /\ th'[t].at = th[t].at
        /\ th'[t].failed = th[t].failed
    BY Zenon, <1>10 DEF RetryStopDoes, Goes, Moves
  <2>2. UNCHANGED <<current, currentConfig>> /\ Merged' = Merged
    BY Zenon, <1>10 DEF RetryStopDoes, Merged
  <2> QED
    BY ZenonT(40), <2>1, <2>2 DEF PhaseOK, Fits, Served
<1>11. CASE RetryDetachDoes(t)
  <2>1. /\ th[t].pc = "retryDetach" /\ th'[t].pc = "retryAttach"
        /\ th'[t].want = th[t].want /\ th'[t].left = th[t].left /\ th'[t].at = th[t].at
        /\ th'[t].failed = th[t].failed
    BY Zenon, <1>11 DEF RetryDetachDoes, Goes, Moves
  <2>2. UNCHANGED <<current, currentConfig>> /\ Merged' = Merged
    BY Zenon, <1>11 DEF RetryDetachDoes, Merged
  <2> QED
    BY ZenonT(40), <2>1, <2>2 DEF PhaseOK, Fits, Served
<1>12. CASE CredsDoes(t)
  <2>1. UNCHANGED <<current, currentConfig, attached, unit>> /\ Merged' = Merged /\ th[t].pc = "creds"
    BY Zenon, <1>12 DEF CredsDoes, Merged
  <2>2. CASE Goes(t, "config") /\ auth'[th[t].at] # "none"
    <3>1. /\ th'[t].pc = "config"
          /\ th'[t].want = th[t].want /\ th'[t].left = th[t].left /\ th'[t].at = th[t].at
          /\ th'[t].failed = th[t].failed
      BY Zenon, <2>2 DEF Goes, Moves
    <3> QED
      BY ZenonT(40), <2>1, <2>2, <3>1 DEF PhaseOK, Fits, Served
  <2>3. CASE Skips(t)
    <3>1. /\ th'[t].pc = "want"
          /\ th'[t].want = th[t].want /\ th'[t].left = th[t].left
          /\ th'[t].failed = th[t].failed \cup {th[t].at}
      BY Zenon, <2>3 DEF Skips, Moves
    <3> QED
      BY Zenon, <2>1, <3>1 DEF PhaseOK, Fits, Served
  <2> QED
    BY <1>12, <2>2, <2>3 DEF CredsDoes
<1>13. CASE ConfigDoes(t)
  <2>1. /\ th[t].pc \in {"config", "sync"} /\ th'[t].pc \in {"start", "cfgStop"}
        /\ th'[t].want = th[t].want /\ th'[t].left = th[t].left /\ th'[t].at = th[t].at
        /\ th'[t].failed = th[t].failed
    BY Zenon, <1>13 DEF ConfigDoes, Goes, Moves
  <2>2. UNCHANGED <<current, currentConfig, attached, unit, auth>> /\ Merged' = Merged
    BY Zenon, <1>13 DEF ConfigDoes, Merged
  <2>3. th[t].at \in Id /\ configFile'[th[t].at] = th[t].want[th[t].at].cfg
    BY Zenon, <1>13, <2>1 DEF ConfigDoes, TypeOK, LocalOK
  <2>4. th[t].pc = "config" <=> th'[t].pc = "start"
    BY <1>13 DEF ConfigDoes, Goes, Moves
  <2> QED
    BY ZenonT(40), <2>1, <2>2, <2>3, <2>4 DEF PhaseOK, Fits, Served
<1>14. CASE StartDoes(t)
  <2>1. /\ th[t].pc = "start" /\ th'[t].pc = "want" /\ th[t].at \in Id
        /\ th'[t].want = th[t].want /\ th'[t].left = th[t].left /\ th'[t].failed = th[t].failed
    BY Zenon, <1>14 DEF StartDoes, Goes, Moves, LocalOK
  <2>2. Merged' = Merged
    BY Zenon, <1>14 DEF StartDoes, Merged
  <2>3. \A j \in Id : current'[j] = IF j = th[t].at THEN th[t].want[j].ver ELSE current[j]
    BY Zenon, <1>14, <2>1 DEF StartDoes, TypeOK
  <2>4. \A j \in Id : currentConfig'[j] = IF j = th[t].at THEN th[t].want[j].cfg ELSE currentConfig[j]
    BY Zenon, <1>14, <2>1 DEF StartDoes, TypeOK
  <2>5. \A j \in Id : Fits(t, j)'
    BY Zenon, <2>1, <2>3 DEF PhaseOK, Fits
  <2>6. \A j \in Id \ th[t].left : Served(t, j)'
    BY ZenonT(40), <2>1, <2>3, <2>4 DEF PhaseOK, Served
  <2> QED
    BY Zenon, <2>1, <2>2, <2>5, <2>6 DEF PhaseOK
<1>15. CASE CfgStopDoes(t)
  <2>1. /\ th[t].pc = "cfgStop" /\ th'[t].pc = "cfgStart" /\ th[t].at \in Id
        /\ th'[t].want = th[t].want /\ th'[t].left = th[t].left /\ th'[t].at = th[t].at
        /\ th'[t].failed = th[t].failed
    BY Zenon, <1>15 DEF CfgStopDoes, Goes, Moves, LocalOK
  <2>2. UNCHANGED <<current, currentConfig, configFile>> /\ Merged' = Merged
    BY Zenon, <1>15 DEF CfgStopDoes, Merged
  <2>3. unit'[th[t].at] = Off
    BY Zenon, <1>15, <2>1 DEF CfgStopDoes, TypeOK
  <2> QED
    BY ZenonT(40), <2>1, <2>2, <2>3 DEF PhaseOK, Fits, Served
<1>16. CASE CfgStartDoes(t)
  <2>1. /\ th[t].pc = "cfgStart" /\ th'[t].pc = "want" /\ th[t].at \in Id
        /\ th'[t].want = th[t].want /\ th'[t].left = th[t].left /\ th'[t].failed = th[t].failed
    BY Zenon, <1>16 DEF CfgStartDoes, Goes, Moves, LocalOK
  <2>2. UNCHANGED current /\ Merged' = Merged
    BY <1>16 DEF CfgStartDoes, Merged
  <2>3. \A j \in Id : currentConfig'[j] = IF j = th[t].at THEN th[t].want[j].cfg ELSE currentConfig[j]
    BY Zenon, <1>16, <2>1 DEF CfgStartDoes, TypeOK
  <2>4. \A j \in Id : Fits(t, j)'
    BY Zenon, <2>1, <2>2 DEF PhaseOK, Fits
  <2>5. \A j \in Id \ th[t].left : Served(t, j)'
    BY ZenonT(40), <2>1, <2>2, <2>3 DEF PhaseOK, Served
  <2> QED
    BY Zenon, <2>1, <2>2, <2>4, <2>5 DEF PhaseOK
<1> QED
  BY Zenon, <1>1, <1>2, <1>3, <1>4, <1>5, <1>6, <1>7, <1>8, <1>9, <1>10, <1>11, <1>12, <1>13, <1>14, <1>15, <1>16 DEF PassDoes

\* What is recorded is attached.
LEMMA RecordStep ==
  ASSUME TypeOK, NEW t \in Thread, LocalOK(t), OnlyAttachedRuns, PhaseOK(t), RecordOK, RunOK, PassDoes(t)
  PROVE  RecordOK'
<1> USE DEF Detaching, Attaching, Syncing, InPass, sets, record, plant, NoVer
<1>0. /\ current \in [Id -> Ver \cup {NoVer}] /\ currentConfig \in [Id -> Cfg \cup {NoCfg}]
      /\ attached \in [Id -> Ver \cup {NoVer}] /\ unit \in [Id -> Cfg \cup {Off}]
      /\ configFile \in [Id -> Cfg \cup {NoCfg}] /\ th[t].left \subseteq Id
  BY Zenon, Fields DEF TypeOK
<1>1. CASE MergeDoes(t)
  BY Zenon, <1>1, <1>0 DEF MergeDoes, PhaseOK, LocalOK, RecordOK, Fits
<1>2. CASE DiffDoes(t)
  BY Zenon, <1>2, <1>0 DEF DiffDoes, Moves, PhaseOK, LocalOK, RecordOK, Fits
<1>3. CASE StopDoes(t)
  BY Zenon, <1>3, <1>0 DEF StopDoes, Goes, Moves, PhaseOK, LocalOK, RecordOK, Fits
<1>4. CASE DetachDoes(t)
  BY ZenonT(40), <1>4, <1>0 DEF DetachDoes, Goes, Moves, Detachable, PhaseOK, LocalOK, RecordOK, Fits
<1>5. CASE ReturnDoes(t)
  BY <1>5, <1>0 DEF ReturnDoes, Rests, Fresh, PhaseOK, LocalOK, RecordOK, Fits
<1>6. CASE WantDoes(t)
  BY Zenon, <1>6, <1>0 DEF WantDoes, Moves, PhaseOK, LocalOK, RecordOK, Fits
<1>7. CASE SkipDoes(t)
  BY Zenon, <1>7, <1>0 DEF SkipDoes, Skips, Moves, PhaseOK, LocalOK, RecordOK, Fits
<1>8. CASE FetchDoes(t)
  BY Zenon, <1>8, <1>0 DEF FetchDoes, Goes, Moves, PhaseOK, LocalOK, RecordOK, Fits
<1>9. CASE AttachDoes(t)
  BY Zenon, <1>9, <1>0 DEF AttachDoes, Goes, Moves, PhaseOK, LocalOK, RecordOK, Fits
<1>10. CASE RetryStopDoes(t)
  BY Zenon, <1>10, <1>0 DEF RetryStopDoes, Goes, Moves, PhaseOK, LocalOK, RecordOK, Fits
<1>11. CASE RetryDetachDoes(t)
  BY Zenon, <1>11, <1>0 DEF RetryDetachDoes, Goes, Moves, Detachable, PhaseOK, LocalOK, RecordOK, Fits
<1>12. CASE CredsDoes(t)
  BY <1>12, <1>0 DEF CredsDoes, Goes, Skips, Moves, PhaseOK, LocalOK, RecordOK, Fits
<1>13. CASE ConfigDoes(t)
  BY Zenon, <1>13, <1>0 DEF ConfigDoes, Goes, Moves, PhaseOK, LocalOK, RecordOK, Fits
<1>14. CASE StartDoes(t)
  BY ZenonT(40), <1>14, <1>0 DEF StartDoes, Goes, Moves, SystemctlStart, PhaseOK, LocalOK, RecordOK, Fits
<1>15. CASE CfgStopDoes(t)
  BY Zenon, <1>15, <1>0 DEF CfgStopDoes, Goes, Moves, PhaseOK, LocalOK, RecordOK, Fits
<1>16. CASE CfgStartDoes(t)
  BY Zenon, <1>16, <1>0 DEF CfgStartDoes, Goes, Moves, SystemctlStart, PhaseOK, LocalOK, RecordOK, Fits
<1> QED
  BY <1>1, <1>2, <1>3, <1>4, <1>5, <1>6, <1>7, <1>8, <1>9, <1>10, <1>11, <1>12, <1>13, <1>14, <1>15, <1>16 DEF PassDoes

\* And runs as recorded.
LEMMA RunStep ==
  ASSUME TypeOK, NEW t \in Thread, LocalOK(t), OnlyAttachedRuns, PhaseOK(t), RecordOK, RunOK, PassDoes(t)
  PROVE  RunOK'
<1> USE DEF Detaching, Attaching, Syncing, InPass, sets, record, plant, NoVer
<1>0. /\ current \in [Id -> Ver \cup {NoVer}] /\ currentConfig \in [Id -> Cfg \cup {NoCfg}]
      /\ attached \in [Id -> Ver \cup {NoVer}] /\ unit \in [Id -> Cfg \cup {Off}]
      /\ configFile \in [Id -> Cfg \cup {NoCfg}] /\ th[t].left \subseteq Id
  BY Fields DEF TypeOK
<1>1. CASE MergeDoes(t)
  BY Zenon, <1>1, <1>0 DEF MergeDoes, PhaseOK, LocalOK, RecordOK, RunOK
<1>2. CASE DiffDoes(t)
  BY Zenon, <1>2, <1>0 DEF DiffDoes, Moves, PhaseOK, LocalOK, RecordOK, RunOK
<1>3. CASE StopDoes(t)
  BY ZenonT(40), <1>3, <1>0 DEF StopDoes, Goes, Moves, PhaseOK, LocalOK, RecordOK, RunOK
<1>4. CASE DetachDoes(t)
  BY Zenon, <1>4, <1>0 DEF DetachDoes, Goes, Moves, Detachable, PhaseOK, LocalOK, RecordOK, RunOK
<1>5. CASE ReturnDoes(t)
  BY <1>5, <1>0 DEF ReturnDoes, Rests, Fresh, PhaseOK, LocalOK, RecordOK, RunOK
<1>6. CASE WantDoes(t)
  BY Zenon, <1>6, <1>0 DEF WantDoes, Moves, PhaseOK, LocalOK, RecordOK, RunOK
<1>7. CASE SkipDoes(t)
  BY Zenon, <1>7, <1>0 DEF SkipDoes, Skips, Moves, PhaseOK, LocalOK, RecordOK, RunOK
<1>8. CASE FetchDoes(t)
  BY Zenon, <1>8, <1>0 DEF FetchDoes, Goes, Moves, PhaseOK, LocalOK, RecordOK, RunOK
<1>9. CASE AttachDoes(t)
  BY Zenon, <1>9, <1>0 DEF AttachDoes, Goes, Moves, PhaseOK, LocalOK, RecordOK, RunOK
<1>10. CASE RetryStopDoes(t)
  BY <1>10, <1>0 DEF RetryStopDoes, Goes, Moves, PhaseOK, LocalOK, RecordOK, RunOK
<1>11. CASE RetryDetachDoes(t)
  BY Zenon, <1>11, <1>0 DEF RetryDetachDoes, Goes, Moves, Detachable, PhaseOK, LocalOK, RecordOK, RunOK
<1>12. CASE CredsDoes(t)
  <2>1. UNCHANGED <<current, currentConfig, attached, unit, authed, halted>> /\ th[t].pc = "creds"
    BY Zenon, <1>12 DEF CredsDoes
  <2>2. \A j \in Id \ {th[t].at} : auth'[j] = auth[j] \/ auth[j] = "unserved"
    BY <1>12 DEF CredsDoes
  <2>3. current[th[t].at] = NoVer
    BY <2>1 DEF PhaseOK
  <2> QED
    BY Zenon, <2>1, <2>2, <2>3 DEF RunOK
<1>13. CASE ConfigDoes(t)
  BY Zenon, <1>13, <1>0 DEF ConfigDoes, Goes, Moves, PhaseOK, LocalOK, RecordOK, RunOK
<1>14. CASE StartDoes(t)
  <2>1. th[t].pc = "start" /\ th[t].at \in Id /\ unit[th[t].at] = Off
    BY Zenon, <1>14 DEF StartDoes, PhaseOK, LocalOK
  <2>2. /\ configFile[th[t].at] = th[t].want[th[t].at].cfg /\ auth[th[t].at] \in {"unwritten", "unserved", "ready"}
        /\ UNCHANGED auth
    BY Zenon, <1>14, <2>1 DEF StartDoes, PhaseOK, TypeOK, AuthState
  <2>3. unit' = [unit EXCEPT ![th[t].at] = configFile[th[t].at]]
    BY Zenon, <1>14, <2>1 DEF StartDoes, SystemctlStart
  <2>4. authed' = IF auth[th[t].at] \in {"ready", "unserved"} THEN authed \cup {th[t].at} ELSE authed \ {th[t].at}
    BY <1>14, <2>1 DEF StartDoes, SystemctlStart
  <2>5. \A j \in Id \ {th[t].at} : current'[j] = current[j] /\ currentConfig'[j] = currentConfig[j] /\ unit'[j] = unit[j]
    BY Zenon, <1>14, <2>1, <2>3 DEF StartDoes, TypeOK
  <2>6. currentConfig'[th[t].at] = th[t].want[th[t].at].cfg /\ unit'[th[t].at] = th[t].want[th[t].at].cfg
    BY Zenon, <1>14, <2>1, <2>2, <2>3 DEF StartDoes, TypeOK
  <2>7. halted' = halted \ {th[t].at}
    BY Zenon, <1>14 DEF StartDoes
  <2>8. th[t].at \in authed' \/ auth'[th[t].at] = "unwritten"
    BY <2>2, <2>4
  <2>9. ASSUME NEW j \in Id \ {th[t].at}, j \notin halted', current'[j] # NoVer
        PROVE  unit'[j] = currentConfig'[j] /\ (j \in authed' \/ auth'[j] = "unwritten")
    BY Zenon, <2>2, <2>4, <2>5, <2>7, <2>9 DEF RunOK
  <2> QED
    BY Zenon, <2>6, <2>8, <2>9 DEF RunOK
<1>15. CASE CfgStopDoes(t)
  BY ZenonT(40), <1>15, <1>0 DEF CfgStopDoes, Goes, Moves, PhaseOK, LocalOK, RecordOK, RunOK
<1>16. CASE CfgStartDoes(t)
  <2>1. th[t].pc = "cfgStart" /\ th[t].at \in Id /\ unit[th[t].at] = Off
    BY Zenon, <1>16 DEF CfgStartDoes, PhaseOK, LocalOK
  <2>2. /\ configFile[th[t].at] = th[t].want[th[t].at].cfg /\ auth[th[t].at] \in {"unwritten", "unserved", "ready"}
        /\ UNCHANGED auth
    <3>1. th[t].want[th[t].at] \in Entry
      BY <2>1, Fields DEF LocalOK, DesiredSet
    <3>2. current[th[t].at] # NoVer
      BY Zenon, <2>1, <3>1, ModulesAssumption DEF PhaseOK, Entry, NoVer
    <3> QED
      BY Zenon, <1>16, <2>1, <3>2 DEF CfgStartDoes, PhaseOK, RecordOK, TypeOK, AuthState
  <2>3. unit' = [unit EXCEPT ![th[t].at] = configFile[th[t].at]]
    BY Zenon, <1>16, <2>1 DEF CfgStartDoes, SystemctlStart
  <2>4. authed' = IF auth[th[t].at] \in {"ready", "unserved"} THEN authed \cup {th[t].at} ELSE authed \ {th[t].at}
    BY <1>16, <2>1 DEF CfgStartDoes, SystemctlStart
  <2>5. \A j \in Id \ {th[t].at} : current'[j] = current[j] /\ currentConfig'[j] = currentConfig[j] /\ unit'[j] = unit[j]
    BY Zenon, <1>16, <2>1, <2>3 DEF CfgStartDoes, TypeOK
  <2>6. currentConfig'[th[t].at] = th[t].want[th[t].at].cfg /\ unit'[th[t].at] = th[t].want[th[t].at].cfg
    BY ZenonT(40), <1>16, <2>1, <2>2, <2>3 DEF CfgStartDoes, TypeOK
  <2>7. halted' = halted \ {th[t].at}
    BY <1>16 DEF CfgStartDoes
  <2>8. th[t].at \in authed' \/ auth'[th[t].at] = "unwritten"
    BY <2>2, <2>4
  <2>9. ASSUME NEW j \in Id \ {th[t].at}, j \notin halted', current'[j] # NoVer
        PROVE  unit'[j] = currentConfig'[j] /\ (j \in authed' \/ auth'[j] = "unwritten")
    BY <2>2, <2>4, <2>5, <2>7, <2>9 DEF RunOK
  <2> QED
    BY Zenon, <2>6, <2>8, <2>9 DEF RunOK
<1> QED
  BY <1>1, <1>2, <1>3, <1>4, <1>5, <1>6, <1>7, <1>8, <1>9, <1>10, <1>11, <1>12, <1>13, <1>14, <1>15, <1>16 DEF PassDoes
\* A pass that returns has served every module.
LEMMA LastStep ==
  ASSUME TypeOK, NEW t \in Thread, LocalOK(t), PhaseOK(t), PassDoes(t)
  PROVE  LastOK'
<1>1. CASE ReturnDoes(t)
  <2>1. UNCHANGED <<current, currentConfig>>
    BY <1>1 DEF ReturnDoes
  <2>2. CASE last' = [want |-> th[t].want, failed |-> Id]
    BY Zenon, <2>2 DEF LastOK
  <2>3. CASE th[t].pc = "want" /\ th[t].left = {} /\ last' = [want |-> th[t].want, failed |-> th[t].failed]
    <3>1. \A i \in Id : Fits(t, i) /\ Served(t, i)
      BY Zenon, <2>3 DEF PhaseOK
    <3>2. last'.want = th[t].want /\ last'.failed = th[t].failed
      BY <2>3
    <3> QED
      BY <2>1, <3>1, <3>2 DEF LastOK, Fits, Served, Nothing, NoVer
  <2> QED
    BY <1>1, <2>2, <2>3 DEF ReturnDoes
<1>2. ASSUME th'[t].pc \in InPass
      PROVE  LastOK'
  BY <1>2 DEF LastOK
<1>3. CASE ~ReturnDoes(t)
  <2>1. th'[t].pc \in InPass
    BY Zenon, <1>3 DEF PassDoes, MergeDoes, DiffDoes, StopDoes, DetachDoes, WantDoes, SkipDoes, FetchDoes, AttachDoes,
      RetryStopDoes, RetryDetachDoes, CredsDoes, ConfigDoes, StartDoes, CfgStopDoes, CfgStartDoes,
      Goes, Moves, Skips, InPass, Detaching, Attaching, Syncing
  <2> QED
    BY <1>2, <2>1
<1> QED
  BY <1>1, <1>3

\* The image is deleted when nothing runs in another version than the wanted one.
LEMMA UninstallStep ==
  ASSUME TypeOK, NEW t \in Thread, PhaseOK(t), UninstallOK(t), PassDoes(t), th'[t].pc # "idle"
  PROVE  UninstallOK(t)'
<1>1. th'[t].job = th[t].job /\ UNCHANGED <<proxyDesired, localDesired>> /\ th'[t].pc # "confirm"
  BY Zenon, PassFrame DEF sets, InPass, Detaching, Attaching, Syncing
<1>2. th'[t].job.op = "uninstall" => th'[t].job.id \in Id /\ localDesired'[th'[t].job.id] = Nothing
  BY Zenon, <1>1 DEF UninstallOK
<1>3. ASSUME th'[t].pc = "rm"
      PROVE  th'[t].job.op = "uninstall" /\ \A i \in Id : current'[i] \in {NoVer, Merged'[i].ver}
  <2>1. ReturnDoes(t)
    BY Zenon, <1>3, PassFrame
  <2>2. th[t].pc = "want" /\ th[t].job.op = "uninstall" /\ UNCHANGED current
    BY <1>3, <2>1 DEF ReturnDoes, Rests, Fresh
  <2>3. th[t].want = Merged /\ \A i \in Id : Fits(t, i)
    BY Zenon, <2>2 DEF PhaseOK, InPass
  <2>4. Merged' = Merged
    BY <1>1 DEF Merged
  <2> QED
    BY <1>1, <2>2, <2>3, <2>4 DEF Fits
<1> QED
  BY <1>1, <1>2, <1>3 DEF UninstallOK

\* While t is at work everybody else is idle, and stays so.
LEMMA WorkerIsAlone ==
  ASSUME NEW t \in Thread, OneAtWork, th[t].pc # "idle", Others(t)
  PROVE  /\ \A u \in Thread \ {t} : th[u].pc = "idle" /\ th'[u].pc = "idle" /\ th'[u].live = th[u].live
         /\ OneAtWork'
<1>1. \A u \in Thread \ {t} : th[u].pc = "idle" /\ th'[u].pc = "idle" /\ th'[u].live = th[u].live
  BY DEF OneAtWork, Others
<1> QED
  BY <1>1 DEF OneAtWork

\* A step of a pass by the goroutine at work.
LEMMA AlonePass ==
  ASSUME ModulesInv, AloneOK, NEW t \in Thread, PassDoes(t)
  PROVE  AloneOK'
<1>1. /\ UNCHANGED sets /\ Others(t) /\ th[t].pc \in {"merge"} \cup InPass
      /\ th'[t].pc \in {"idle", "rm"} \cup InPass
      /\ th'[t].live = th[t].live \/ th'[t].live = TRUE
  BY Zenon, PassFrame
<1>2. th[t].pc # "idle"
  BY <1>1 DEF InPass, Detaching, Attaching, Syncing
<1>3. PhaseOK(t) /\ UninstallOK(t) /\ LocalOK(t) /\ TypeOK /\ OnlyAttachedRuns /\ RecordOK /\ RunOK /\ OneAtWork
  BY <1>2 DEF AloneOK, ModulesInv
<1>4. OneAtWork' /\ \A u \in Thread \ {t} : th[u].pc = "idle" /\ th'[u].pc = "idle" /\ th'[u].live = th[u].live
  BY <1>1, <1>2, <1>3, WorkerIsAlone
<1>5. RecordOK' /\ RunOK' /\ LastOK'
  BY <1>3, RecordStep, RunStep, LastStep
<1>6. \A u \in Thread : th'[u].pc # "idle" => PhaseOK(u)' /\ UninstallOK(u)'
  <2>1. th'[t].pc # "idle" => PhaseOK(t)' /\ UninstallOK(t)'
    BY <1>3, PhaseStep, UninstallStep
  <2> QED
    BY <2>1, <1>4
<1>7. StoreOK'
  <2>1. \A u \in Thread : th[u].live
    BY DEF AloneOK, StoreOK
  <2>2. \A u \in Thread : th'[u].live
    BY <1>1, <1>4, <2>1
  <2>3. \A u \in Thread : th[u].pc \notin {"setProxy", "tmp", "rename"} /\ th'[u].pc \notin {"setProxy", "tmp", "rename"}
    BY <1>1, <1>4 DEF InPass, Detaching, Attaching, Syncing
  <2>4. Run \in Thread
    BY DEF Thread
  <2>5. UNCHANGED <<proxyDesired, localDesired, proxyCache, localStore, unsaved>>
    BY <1>1 DEF sets
  <2>6. ~unsaved => proxyCache = proxyDesired /\ localStore = localDesired
    BY <2>3, <2>4 DEF AloneOK, StoreOK
  <2> QED
    BY <2>2, <2>3, <2>4, <2>5, <2>6 DEF StoreOK
<1> QED
  BY <1>4, <1>5, <1>6, <1>7 DEF AloneOK

\* The record, and the modules, are left alone by a step that is not of a pass.
LEMMA RecordFrame ==
  ASSUME AloneOK, UNCHANGED <<record, attached, unit, authed, auth>>,
         \A u \in Thread : th[u].pc \notin InPass
  PROVE  RecordOK' /\ RunOK' /\ LastOK'
<1>1. RecordOK' /\ RunOK'
  BY Zenon DEF AloneOK, RecordOK, RunOK, record
<1>2. LastOK'
  BY Zenon DEF AloneOK, LastOK, record
<1> QED
  BY <1>1, <1>2

\* A step of the goroutine at work that is not of a pass.
LEMMA AloneWork ==
  ASSUME ModulesInv, AloneOK, NEW t \in Thread,
         \/ ConfirmLocalDoes(t) \/ WriteTmpDoes(t) \/ RenameDoes(t) \/ RemoveDoes(t)
         \/ t = Run /\ SetProxyDoes
  PROVE  AloneOK'
<1> USE DEF Goes, Moves, Rests
<1>1. /\ Others(t) /\ th[t].pc \in {"confirm", "tmp", "rename", "rm", "setProxy"}
      /\ th'[t].pc \in {"idle", "tmp", "rename", "merge"}
      /\ th'[t].pc # "idle" => th'[t].job = th[t].job
      /\ th'[t].live = th[t].live \/ th'[t].live = TRUE
  <2>1. CASE ConfirmLocalDoes(t)
    BY Zenon, <2>1, RestsIs DEF ConfirmLocalDoes
  <2>2. CASE WriteTmpDoes(t)
    BY Zenon, <2>2, RestsIs DEF WriteTmpDoes
  <2>3. CASE RenameDoes(t)
    BY Zenon, <2>3, RestsIs DEF RenameDoes
  <2>4. CASE RemoveDoes(t)
    BY Zenon, <2>4, RestsIs DEF RemoveDoes
  <2>5. CASE t = Run /\ SetProxyDoes
    BY Zenon, <2>5 DEF SetProxyDoes
  <2> QED
    BY ZenonT(40), <2>1, <2>2, <2>3, <2>4, <2>5
<1>2. UNCHANGED <<record, attached, unit, authed, auth>>
  BY Zenon DEF ConfirmLocalDoes, WriteTmpDoes, RenameDoes, RemoveDoes, SetProxyDoes, plant
<1>3. OneAtWork' /\ \A u \in Thread \ {t} : th[u].pc = "idle" /\ th'[u].pc = "idle" /\ th'[u].live = th[u].live
  BY Zenon, <1>1, WorkerIsAlone DEF AloneOK
<1>4. RecordOK' /\ RunOK' /\ LastOK'
  <2>1. \A u \in Thread : th[u].pc \notin InPass
    BY <1>1, <1>3 DEF InPass, Detaching, Attaching, Syncing
  <2> QED
    BY <1>2, <2>1, RecordFrame
<1>5. \A u \in Thread : th'[u].pc # "idle" => PhaseOK(u)' /\ UninstallOK(u)'
  <2>1. PhaseOK(t)'
    BY Zenon, <1>1 DEF PhaseOK, InPass, Detaching, Attaching, Syncing
  <2>2. ASSUME th'[t].pc # "idle" PROVE UninstallOK(t)'
    <3>1. th'[t].job = th[t].job /\ th'[t].pc \notin {"confirm", "rm"}
      BY Zenon, <1>1, <2>2
    <3>2. UninstallOK(t)
      BY Zenon, <1>1 DEF AloneOK
    <3>3. th[t].job.op = "uninstall" => UNCHANGED localDesired
      BY Zenon, <3>2 DEF UninstallOK, ConfirmLocalDoes, WriteTmpDoes, RenameDoes, RemoveDoes, SetProxyDoes, sets
    <3> QED
      BY Zenon, <3>1, <3>2, <3>3 DEF UninstallOK
  <2> QED
    BY <1>3, <2>1, <2>2
<1>6. StoreOK'
  <2>1. \A u \in Thread : th[u].live
    BY Zenon DEF AloneOK, StoreOK
  <2>2. \A u \in Thread : th'[u].live
    BY <1>1, <1>3, <2>1
  <2>3. Run \in Thread
    BY DEF Thread
  <2>4. CASE ConfirmLocalDoes(t)
    <3>1. th[t].pc = "confirm" /\ UNCHANGED <<proxyDesired, proxyCache, localStore, unsaved>>
      BY Zenon, <2>4 DEF ConfirmLocalDoes
    <3>2. th'[t].pc = "tmp" \/ (th'[t].pc = "idle" /\ UNCHANGED localDesired)
      BY Zenon, <2>4, RestsIs DEF ConfirmLocalDoes
    <3>3. \A u \in Thread : /\ th[u].pc \notin {"setProxy", "tmp", "rename"}
                            /\ th'[u].pc \notin {"setProxy", "rename"}
      BY Zenon, <1>3, <3>1, <3>2
    <3>4. ~unsaved => proxyCache = proxyDesired /\ localStore = localDesired
      BY Zenon, <2>3, <3>3 DEF AloneOK, StoreOK
    <3> QED
      BY Zenon, <2>2, <2>3, <3>1, <3>2, <3>3, <3>4 DEF StoreOK
  <2>5. CASE WriteTmpDoes(t)
    BY Zenon, <1>1, <1>3, <2>1, <2>2, <2>3, <2>5 DEF AloneOK, StoreOK, WriteTmpDoes, Fresh
  <2>6. CASE RenameDoes(t)
    BY Zenon, <1>1, <1>3, <2>2, <2>3, <2>6 DEF AloneOK, StoreOK, RenameDoes, Fresh
  <2>7. CASE RemoveDoes(t)
    <3>1. UNCHANGED sets /\ th[t].pc = "rm" /\ th'[t].pc = "idle"
      BY Zenon, <2>7, RestsIs DEF RemoveDoes
    <3>2. \A u \in Thread : /\ th[u].pc \notin {"setProxy", "tmp", "rename"}
                            /\ th'[u].pc \notin {"setProxy", "tmp", "rename"}
      BY Zenon, <1>3, <3>1
    <3> QED
      BY Zenon, <2>2, <2>3, <3>1, <3>2 DEF AloneOK, StoreOK, sets
  <2>8. CASE t = Run /\ SetProxyDoes
    BY Zenon, <1>1, <1>3, <2>2, <2>3, <2>8 DEF AloneOK, StoreOK, SetProxyDoes
  <2> QED
    BY <2>4, <2>5, <2>6, <2>7, <2>8
<1> QED
  BY <1>3, <1>4, <1>5, <1>6 DEF AloneOK

\* A goroutine begins while everybody is idle.
LEMMA AloneBegin ==
  ASSUME ModulesInv, AloneOK, ~overlap', NEW t \in Thread,
         ConfirmDoes(t) \/ UninstallDoes(t) \/ (t = Run /\ HandleDoes)
  PROVE  AloneOK'
<1>1. Begins(t) /\ UNCHANGED <<proxyDesired, localStore, record, plant>>
  BY DEF ConfirmDoes, UninstallDoes, HandleDoes
<1>2. (\A u \in Thread : th[u].pc = "idle") /\ Others(t)
  BY <1>1 DEF Begins
<1>3. th'[t].pc \in {"confirm", "tmp", "setProxy"} /\ th'[t].live = th[t].live
  BY DEF ConfirmDoes, UninstallDoes, HandleDoes
<1>4. \A u \in Thread \ {t} : th'[u].pc = "idle" /\ th'[u].live = th[u].live
  BY <1>2 DEF Others
<1>5. OneAtWork'
  BY <1>4 DEF OneAtWork
<1>6. RecordOK' /\ RunOK' /\ LastOK'
  <2>1. \A u \in Thread : th[u].pc \notin InPass
    BY <1>2 DEF InPass, Detaching, Attaching, Syncing
  <2> QED
    BY <1>1, <2>1, RecordFrame DEF plant
<1>7. \A u \in Thread : th'[u].pc # "idle" => PhaseOK(u)' /\ UninstallOK(u)'
  <2>1. PhaseOK(t)'
    BY Zenon, <1>3 DEF PhaseOK, InPass, Detaching, Attaching, Syncing
  <2>2. CASE ConfirmDoes(t)
    BY Zenon, <1>4, <2>1, <2>2 DEF ConfirmDoes, UninstallOK
  <2>3. CASE UninstallDoes(t)
    BY Zenon, <1>4, <2>1, <2>3 DEF UninstallDoes, UninstallOK
  <2>4. CASE t = Run /\ HandleDoes
    <3>1. th'[t].job = th[t].job /\ th'[t].pc = "setProxy"
      BY Zenon, <2>4 DEF HandleDoes
    <3>2. th[t].job.op = "none"
      BY Zenon, <1>2 DEF ModulesInv, LocalOK
    <3> QED
      BY <1>4, <2>1, <3>1, <3>2 DEF UninstallOK
  <2> QED
    BY Zenon, <2>2, <2>3, <2>4
<1>8. StoreOK'
  <2>1. \A u \in Thread : th'[u].live
    BY Zenon, <1>3, <1>4 DEF AloneOK, StoreOK
  <2>2. Run \in Thread
    BY DEF Thread
  <2>3. ~unsaved => proxyCache = proxyDesired /\ localStore = localDesired
    BY <1>2, <2>2 DEF AloneOK, StoreOK
  <2>4. CASE ConfirmDoes(t)
    BY <1>4, <2>1, <2>2, <2>3, <2>4 DEF ConfirmDoes, StoreOK
  <2>5. CASE UninstallDoes(t)
    BY Zenon, <1>4, <2>1, <2>2, <2>3, <2>5 DEF UninstallDoes, StoreOK
  <2>6. CASE t = Run /\ HandleDoes
    BY <1>4, <2>1, <2>2, <2>3, <2>6 DEF HandleDoes, StoreOK
  <2> QED
    BY <2>4, <2>5, <2>6
<1> QED
  BY Zenon, <1>5, <1>6, <1>7, <1>8 DEF AloneOK

\* A new life of the agent.
LEMMA AloneRestart ==
  ASSUME RestartDoes
  PROVE  AloneOK'
<1>0. Run \in Thread
  BY DEF Thread
<1>1. \A u \in Thread : /\ th'[u].pc = IF u = Run THEN "merge" ELSE "idle"
                        /\ th'[u].live /\ th'[u].job.op = "none"
  <2>1. \A u \in Thread : th'[u] = Fresh(IF u = Run THEN "merge" ELSE "idle")
    BY DEF RestartDoes, Threads
  <2>2. \A a : Fresh(a).pc = a /\ Fresh(a).live = TRUE /\ Fresh(a).job.op = "none"
    BY DEF Fresh, NoJob
  <2> QED
    BY <2>1, <2>2
<1>2. OneAtWork'
  BY <1>1 DEF OneAtWork
<1>3. StoreOK'
  BY <1>0, <1>1 DEF StoreOK, RestartDoes
<1>4. RecordOK' /\ RunOK' /\ LastOK'
  BY DEF RecordOK, RunOK, LastOK, RestartDoes
<1>5. \A u \in Thread : th'[u].pc # "idle" => PhaseOK(u)' /\ UninstallOK(u)'
  BY Zenon, <1>1 DEF PhaseOK, UninstallOK, InPass, Detaching, Attaching, Syncing
<1> QED
  BY <1>2, <1>3, <1>4, <1>5 DEF AloneOK

\* Every step, while no two met.
LEMMA AloneStep ==
  ASSUME ModulesInv, Steps, ~overlap'
  PROVE  AloneOK'
<1>1. CASE RestartDoes
  BY <1>1, AloneRestart
<1>2. ASSUME NEW t \in Thread, ConfirmDoes(t) \/ UninstallDoes(t) \/ (t = Run /\ HandleDoes)
      PROVE  AloneOK'
  <2>1. Begins(t)
    BY <1>2 DEF ConfirmDoes, UninstallDoes, HandleDoes
  <2>2. AloneOK
    BY <2>1 DEF Begins, ModulesInv
  <2> QED
    BY <1>2, <2>2, AloneBegin
<1>3. ASSUME NEW t \in Thread, WorkDoes(t) \/ (t = Run /\ SetProxyDoes)
      PROVE  AloneOK'
  <2>1. UNCHANGED overlap
    BY Zenon, <1>3, PassFrame DEF WorkDoes, SetProxyDoes, ConfirmLocalDoes, WriteTmpDoes, RenameDoes, RemoveDoes, sets
  <2>2. AloneOK
    BY <2>1 DEF ModulesInv
  <2> QED
    BY <1>3, <2>2, AlonePass, AloneWork DEF WorkDoes
<1>4. CASE UNCHANGED <<sets, record, plant, th>>
  <2>1. AloneOK
    BY <1>4 DEF ModulesInv, sets
  <2>2. Merged' = Merged /\ UNCHANGED <<localDesired, current, currentConfig, attached, unit, auth, configFile, th>>
    BY Zenon, <1>4 DEF Merged, sets, record, plant
  <2>3. ASSUME NEW t \in Thread, PhaseOK(t) PROVE PhaseOK(t)'
    <3>1. \A j \in Id : (Fits(t, j) => Fits(t, j)') /\ (Served(t, j) => Served(t, j)')
      BY Zenon, <2>2 DEF Fits, Served
    <3> QED
      BY Zenon, <2>2, <2>3, <3>1 DEF PhaseOK
  <2>4. \A t \in Thread : UninstallOK(t) => UninstallOK(t)'
    BY <2>2 DEF UninstallOK
  <2>5. OneAtWork' /\ StoreOK' /\ RecordOK' /\ RunOK' /\ LastOK'
    BY <1>4, <2>1, ZenonT(40) DEF AloneOK, OneAtWork, StoreOK, RecordOK, RunOK, LastOK, sets, record, plant
  <2> QED
    BY Zenon, <2>1, <2>2, <2>3, <2>4, <2>5 DEF AloneOK
<1>5. Run \in Thread
  BY DEF Thread
<1> QED
  BY <1>1, <1>2, <1>3, <1>4, <1>5 DEF Steps

-----------------------------------------------------------------------------
(* What a goroutine knows by itself.                                        *)

\* A config that was written stays one until the agent restarts.
ConfigKept == \A i \in Id : configFile[i] \in Cfg => configFile'[i] \in Cfg

\* Somebody else's step.
LEMMA OtherLocal ==
  ASSUME NEW u \in Thread, LocalOK(u), ConfigKept,
         /\ th'[u].pc = th[u].pc /\ th'[u].want = th[u].want /\ th'[u].left = th[u].left
         /\ th'[u].at = th[u].at /\ th'[u].job = th[u].job
  PROVE  LocalOK(u)'
<1>1. th[u].pc \in {"start", "cfgStop", "cfgStart"} => th[u].at \in Id
  BY DEF LocalOK, Attaching, Syncing
<1> QED
  BY <1>1 DEF LocalOK, ConfigKept

\* A goroutine that is done.
LEMMA FreshLocal ==
  ASSUME NEW u \in Thread, NEW a \in {"idle", "merge"}, th'[u] = Fresh(a)
  PROVE  LocalOK(u)'
<1>1. th'[u].pc = a /\ th'[u].job.op = "none"
  BY SMTT(30), ZenonT(20) DEF Fresh, NoJob
<1> QED
  BY <1>1 DEF LocalOK, Detaching, Attaching, Syncing

\* A step of a pass.
LEMMA PassLocal ==
  ASSUME TypeOK, NEW t \in Thread, LocalOK(t), PassDoes(t)
  PROVE  LocalOK(t)'
<1> USE DEF Detaching, Attaching, Syncing, Goes, Moves, Skips, record, plant, LocalOK
<1>1. CASE ReturnDoes(t)
  <2>1. th'[t] = Fresh("idle") \/ th'[t] = [Fresh("rm") EXCEPT !.job = th[t].job]
    BY <1>1 DEF ReturnDoes, Rests
  <2>2. th'[t] = Fresh("idle") => LocalOK(t)'
    BY FreshLocal
  <2>3. [Fresh("rm") EXCEPT !.job = th[t].job].pc = "rm"
    BY SMTT(30), ZenonT(20) DEF Fresh
  <2> QED
    BY Zenon, <2>1, <2>2, <2>3
<1>2. CASE MergeDoes(t)
  BY ZenonT(40), <1>2 DEF MergeDoes
<1>3. CASE DiffDoes(t)
  <2>1. th[t].left \subseteq Id
    BY SMTT(30), ZenonT(20), Fields
  <2> QED
    BY SMTT(30), ZenonT(20), <1>3, <2>1 DEF DiffDoes
<1>4. CASE StopDoes(t) \/ DetachDoes(t) \/ FetchDoes(t) \/ AttachDoes(t)
  BY ZenonT(40), <1>4 DEF StopDoes, DetachDoes, FetchDoes, AttachDoes
<1>5. CASE WantDoes(t)
  <2>1. th[t].left \subseteq Id
    BY Fields
  <2> QED
    BY Zenon, <1>5, <2>1 DEF WantDoes
<1>6. CASE SkipDoes(t)
  BY SMTT(30), ZenonT(20), <1>6 DEF SkipDoes
<1>7. CASE RetryStopDoes(t) \/ RetryDetachDoes(t) \/ CredsDoes(t)
  BY ZenonT(40), <1>7 DEF RetryStopDoes, RetryDetachDoes, CredsDoes
<1>8. CASE ConfigDoes(t)
  <2>1. th[t].at \in Id /\ th[t].want[th[t].at].cfg \in Cfg
    BY ZenonT(40), <1>8, Wanted DEF ConfigDoes
  <2>2. configFile'[th[t].at] \in Cfg
    BY ZenonT(40), <1>8, <2>1 DEF ConfigDoes, TypeOK
  <2> QED
    BY ZenonT(40), <1>8, <2>1, <2>2 DEF ConfigDoes
<1>9. CASE StartDoes(t) \/ CfgStopDoes(t) \/ CfgStartDoes(t)
  BY Zenon, <1>9 DEF StartDoes, CfgStopDoes, CfgStartDoes
<1> QED
  BY Zenon, <1>1, <1>2, <1>3, <1>4, <1>5, <1>6, <1>7, <1>8, <1>9 DEF PassDoes

\* Every step.
LEMMA LocalStep ==
  ASSUME TypeOK, \A u \in Thread : LocalOK(u), [Next]_vars
  PROVE  \A u \in Thread : LocalOK(u)'
<1>1. ASSUME NEW t \in Thread, Pass(t) PROVE \A u \in Thread : LocalOK(u)'
  <2>1. PassDoes(t)
    BY <1>1, DiffSteps, WantSteps DEF Pass
  <2>2. LocalOK(t)' /\ Others(t)
    BY Zenon, <2>1, PassLocal, PassFrame
  <2>3. ConfigKept
    <3>1. CASE UNCHANGED configFile
      BY SMTT(30), ZenonT(20), <3>1 DEF ConfigKept
    <3>2. CASE configFile' = [configFile EXCEPT ![th[t].at] = th[t].want[th[t].at].cfg]
               /\ th[t].pc \in Attaching \cup Syncing
      <4>1. th[t].want[th[t].at].cfg \in Cfg
        BY SMTT(30), ZenonT(20), <3>2, Wanted
      <4> QED
        BY SMTT(30), ZenonT(20), <3>2, <4>1 DEF ConfigKept, TypeOK
    <3>3. CASE EnsureCreds(t) \/ Config(t, "config", "start") \/ Config(t, "sync", "cfgStop")
      BY ZenonT(40), <3>1, <3>2, <3>3 DEF EnsureCreds, Config, Attaching, Syncing
    <3> QED
      BY Zenon, <1>1, <3>1, <3>3 DEF Pass, Merge, Diff, Stop, Detach, Want, Fetch, Attach, RetryStop, RetryDetach,
        RetryAttach, Start, CfgStop, CfgStart, runVars
  <2>4. \A u \in Thread \ {t} : LocalOK(u)'
    BY <2>2, <2>3, OtherLocal DEF Others
  <2> QED
    BY <2>2, <2>4
<1>2. ASSUME NEW t \in Thread, ConfirmLocal(t) \/ WriteTmp(t) \/ RenameTmp(t) \/ RemoveImage(t) \/ (t = Run /\ SetProxy)
      PROVE  \A u \in Thread : LocalOK(u)'
  <2>1. ConfigKept
    <3>1. CASE UNCHANGED configFile
      BY <3>1 DEF ConfigKept
    <3>2. CASE ConfirmLocal(t)
      <4>1. th[t].job.entry \in Entry
        BY <3>2 DEF ConfirmLocal, LocalOK
      <4>2. th[t].job.entry.cfg \in Cfg
        BY <4>1 DEF Entry
      <4> QED
        BY ZenonT(40), <3>1, <3>2, <4>2 DEF ConfirmLocal, ConfigKept, TypeOK
    <3> QED
      BY SMTT(30), ZenonT(20), <1>2, <3>1, <3>2 DEF WriteTmp, RenameTmp, RemoveImage, SetProxy, runVars
  <2>2. \/ th' = [th EXCEPT ![t] = Fresh("idle")]
        \/ Go(t, "tmp") \/ Go(t, "rename") \/ Go(t, "merge")
    BY SMTT(30), ZenonT(20), <1>2 DEF ConfirmLocal, WriteTmp, RenameTmp, RemoveImage, SetProxy, SaveFails
  <2>3. DOMAIN th = Thread
    BY Fields
  <2>4. CASE th' = [th EXCEPT ![t] = Fresh("idle")]
    <3>1. th'[t] = Fresh("idle") /\ \A u \in Thread \ {t} : th'[u] = th[u]
      BY <2>3, <2>4
    <3>2. LocalOK(t)'
      BY <3>1, FreshLocal
    <3>3. \A u \in Thread \ {t} : LocalOK(u)'
      BY <2>1, <3>1, OtherLocal
    <3> QED
      BY <3>2, <3>3
  <2>5. ASSUME NEW a \in {"tmp", "rename", "merge"}, Go(t, a) PROVE \A u \in Thread : LocalOK(u)'
    <3>1. th'[t].pc = a /\ \A u \in Thread \ {t} : th'[u] = th[u]
      BY SMTT(30), ZenonT(20), <2>5, GoDoes DEF Goes, Moves, Others
    <3>2. LocalOK(t)'
      BY <3>1 DEF LocalOK, Detaching, Attaching, Syncing
    <3>3. \A u \in Thread \ {t} : LocalOK(u)'
      BY <2>1, <3>1, OtherLocal
    <3> QED
      BY <3>2, <3>3
  <2> QED
    BY <2>2, <2>4, <2>5
<1>3. ASSUME NEW set \in Pushed, HandleDesired(set) PROVE \A u \in Thread : LocalOK(u)'
  <2>1. Run \in Thread /\ ConfigKept
    BY <1>3 DEF HandleDesired, ConfigKept, Thread, runVars
  <2>2. DOMAIN th = Thread /\ th[Run] \in Locals
    BY <2>1, Fields
  <2>3. th'[Run].pc = "setProxy" /\ \A u \in Thread \ {Run} : th'[u] = th[u]
    BY SMTT(30), ZenonT(20), <1>3, <2>1, <2>2 DEF HandleDesired, Locals
  <2>4. LocalOK(Run)'
    BY SMTT(30), ZenonT(20), <2>3 DEF LocalOK, Detaching, Attaching, Syncing
  <2>5. \A u \in Thread \ {Run} : LocalOK(u)'
    BY <2>1, <2>3, OtherLocal
  <2> QED
    BY <2>4, <2>5
<1>4. ASSUME NEW t \in Http, NEW i \in Id, NEW v \in Ver, NEW c \in Cfg, ConfirmModule(t, i, v, c)
      PROVE  \A u \in Thread : LocalOK(u)'
  <2> DEFINE e == [ver |-> v, cfg |-> c, src |-> "file"]
             job == [op |-> "confirm", id |-> i, entry |-> e]
  <2>1. t \in Thread /\ ConfigKept
    BY <1>4 DEF ConfirmModule, ConfigKept, Thread, runVars
  <2>2. DOMAIN th = Thread /\ th[t] \in Locals
    BY <2>1, Fields
  <2>3. job.id = i /\ job.entry = e /\ e \in Entry
    BY DEF Entry
  <2>4. th'[t] = [th[t] EXCEPT !.pc = "confirm", !.job = job] /\ \A u \in Thread \ {t} : th'[u] = th[u]
    BY <1>4, <2>1, <2>2 DEF ConfirmModule
  <2> HIDE DEF job, e
  <2>5. th'[t].pc = "confirm" /\ th'[t].job = job
    BY SMTT(30), ZenonT(20), <2>2, <2>4 DEF Locals
  <2>6. LocalOK(t)'
    BY <2>3, <2>5 DEF LocalOK, Detaching, Attaching, Syncing
  <2>7. \A u \in Thread \ {t} : LocalOK(u)'
    BY <2>1, <2>4, OtherLocal
  <2> QED
    BY <2>6, <2>7
<1>5. ASSUME NEW t \in Http, NEW i \in Id, UninstallModule(t, i) PROVE \A u \in Thread : LocalOK(u)'
  <2>1. t \in Thread /\ ConfigKept
    BY Zenon, <1>5 DEF UninstallModule, ConfigKept, Thread, runVars
  <2>2. \A u \in Thread : th[u] \in Locals
    BY Fields
  <2>3. th'[t].pc = "tmp"
    <3>1. th'[t] = [th[t] EXCEPT !.pc = "tmp", !.job = [op |-> "uninstall", id |-> i, entry |-> localDesired[i]]]
      BY Zenon, <1>5, <2>1 DEF UninstallModule
    <3> QED
      BY SMTT(30), ZenonT(20), <2>1, <2>2, <3>1 DEF Locals
  <2>4. ASSUME NEW u \in Thread \ {t} PROVE LocalOK(u)'
    <3>1. th'[u] = th[u] \/ th'[u] = [th[u] EXCEPT !.set = localDesired, !.live = FALSE]
      BY Zenon, <1>5 DEF UninstallModule
    <3>2. /\ th'[u].pc = th[u].pc /\ th'[u].want = th[u].want /\ th'[u].left = th[u].left
          /\ th'[u].at = th[u].at /\ th'[u].job = th[u].job
      BY Zenon, <2>2, <3>1 DEF Locals
    <3> QED
      BY SMTT(30), ZenonT(20), <2>1, <3>2, OtherLocal
  <2>5. LocalOK(t)'
    BY <2>3 DEF LocalOK, Detaching, Attaching, Syncing
  <2> QED
    BY SMTT(30), ZenonT(20), <2>4, <2>5
<1>6. CASE AgentDies \/ Reboot
  <2>1. \A u \in Thread : th'[u] = Fresh(IF u = Run THEN "merge" ELSE "idle")
    BY <1>6 DEF AgentDies, Reboot, Restart, Threads
  <2>2. \A u \in Thread : th'[u] = Fresh("merge") \/ th'[u] = Fresh("idle")
    BY <2>1
  <2> QED
    BY <2>2, FreshLocal
<1>7. CASE UNCHANGED vars \/ \E i \in Id, v \in Ver : StageModule(i, v)
  <2>1. UNCHANGED <<th, configFile>>
    BY Zenon, <1>7 DEF vars, runVars, StageModule
  <2> QED
    BY <2>1, OtherLocal DEF ConfigKept
<1> QED
  BY <1>1, <1>2, <1>3, <1>4, <1>5, <1>6, <1>7 DEF Next, Work

\* What is not attached does not run.
LEMMA AttachedStep ==
  ASSUME TypeOK, \A t \in Thread : LocalOK(t), OnlyAttachedRuns, Steps
  PROVE  OnlyAttachedRuns'
<1>1. CASE UNCHANGED <<attached, unit>>
  BY <1>1 DEF OnlyAttachedRuns
<1>2. CASE RestartDoes
  BY SMTT(30), ZenonT(20), <1>1, <1>2 DEF RestartDoes, OnlyAttachedRuns
<1>3. ASSUME NEW t \in Thread, PassDoes(t) PROVE OnlyAttachedRuns'
  <2>1. attached \in [Id -> Ver \cup {NoVer}] /\ unit \in [Id -> Cfg \cup {Off}]
    BY Zenon DEF TypeOK
  <2>2. CASE StopDoes(t) \/ CfgStopDoes(t) \/ RetryStopDoes(t)
    <3>1. attached' = attached /\ unit' \in {unit, [unit EXCEPT ![th[t].at] = Off]}
      BY Zenon, <2>2 DEF StopDoes, CfgStopDoes, RetryStopDoes
    <3> QED
      BY <2>1, <3>1 DEF OnlyAttachedRuns
  <2>3. CASE DetachDoes(t) \/ RetryDetachDoes(t)
    BY SMTT(30), ZenonT(20), <2>1, <2>3 DEF DetachDoes, RetryDetachDoes, Detachable, OnlyAttachedRuns
  <2>4. CASE AttachDoes(t)
    BY ZenonT(40), <2>1, <2>4 DEF AttachDoes, OnlyAttachedRuns
  <2>5. CASE StartDoes(t) \/ CfgStartDoes(t)
    BY Zenon, <2>1, <2>5 DEF StartDoes, CfgStartDoes, SystemctlStart, OnlyAttachedRuns
  <2>6. CASE \/ MergeDoes(t) \/ DiffDoes(t) \/ ReturnDoes(t) \/ WantDoes(t) \/ SkipDoes(t)
             \/ FetchDoes(t) \/ CredsDoes(t) \/ ConfigDoes(t)
    <3>1. UNCHANGED <<attached, unit>>
      BY Zenon, <2>6 DEF MergeDoes, DiffDoes, ReturnDoes, WantDoes, SkipDoes, FetchDoes, CredsDoes, ConfigDoes, plant
    <3> QED
      BY Zenon, <1>1, <3>1
  <2> QED
    BY Zenon, <1>3, <2>2, <2>3, <2>4, <2>5, <2>6 DEF PassDoes
<1> QED
  BY Zenon, <1>1, <1>2, <1>3 DEF Steps, WorkDoes, ConfirmLocalDoes, WriteTmpDoes, RenameDoes, RemoveDoes, ConfirmDoes,
    UninstallDoes, HandleDoes, SetProxyDoes, plant

-----------------------------------------------------------------------------
(* The theorems.                                                            *)

LEMMA ModulesInit ==
  Init => ModulesInv
<1> SUFFICES ASSUME Init PROVE ModulesInv
  OBVIOUS
<1>1. None \in DesiredSet
  BY DEF None, DesiredSet
<1>2. \A u \in Thread : th[u] = Fresh(IF u = Run THEN "merge" ELSE "idle")
  BY DEF Init, Threads
<1>3. \A u \in Thread : /\ th[u].pc = IF u = Run THEN "merge" ELSE "idle"
                        /\ th[u].live /\ th[u].job.op = "none"
  <2>1. \A a : Fresh(a).pc = a /\ Fresh(a).live = TRUE /\ Fresh(a).job.op = "none"
    BY DEF Fresh, NoJob
  <2> QED
    BY SMTT(30), ZenonT(20), <1>2, <2>1
<1>4. TypeOK
  <2>1. th \in [Thread -> Locals]
    <3>1. \A u \in Thread : Fresh(IF u = Run THEN "merge" ELSE "idle") \in Locals
      BY FreshTyped DEF Pc
    <3> QED
      BY <3>1 DEF Init, Threads
  <2>2. overlap \in BOOLEAN /\ unsaved \in BOOLEAN
    BY Zenon DEF Init
  <2>3. localTmp \in [exists : BOOLEAN, set : DesiredSet]
    BY <1>1, Zenon DEF Init
  <2>4. ops \in 0 .. MaxOps /\ deaths \in 0 .. MaxDeaths
    BY ModulesAssumption DEF Init
  <2>5. RecordTyped /\ PlantTyped
    BY SMTT(30), ZenonT(20), <1>1 DEF Init, RecordTyped, PlantTyped, AuthState
  <2> QED
    BY SMTT(30), ZenonT(20), <1>1, <2>1, <2>2, <2>3, <2>4, <2>5 DEF Init, TypeOK, RecordTyped, PlantTyped
<1>5. \A u \in Thread : LocalOK(u)
  BY <1>3 DEF LocalOK, Detaching, Attaching, Syncing
<1>6. OnlyAttachedRuns
  BY DEF Init, OnlyAttachedRuns
<1>7. AloneOK
  <2>1. Run \in Thread
    BY DEF Thread
  <2>2. OneAtWork
    BY SMTT(30), ZenonT(20), <1>3 DEF OneAtWork
  <2>3. StoreOK
    BY Zenon, <1>3, <2>1 DEF StoreOK, Init
  <2>4. RecordOK /\ RunOK /\ LastOK
    BY SMTT(30), ZenonT(20) DEF RecordOK, RunOK, LastOK, Init
  <2>5. \A u \in Thread : th[u].pc # "idle" => PhaseOK(u) /\ UninstallOK(u)
    BY Zenon, <1>3 DEF PhaseOK, UninstallOK, InPass, Detaching, Attaching, Syncing
  <2> QED
    BY <2>2, <2>3, <2>4, <2>5 DEF AloneOK
<1> QED
  BY <1>4, <1>5, <1>6, <1>7 DEF ModulesInv

LEMMA ModulesStep ==
  ModulesInv /\ [Next]_vars => ModulesInv'
<1> SUFFICES ASSUME ModulesInv, [Next]_vars PROVE ModulesInv'
  OBVIOUS
<1>1. TypeOK /\ (\A t \in Thread : LocalOK(t)) /\ OnlyAttachedRuns
  BY DEF ModulesInv
<1>2. Steps
  BY <1>1, StepsDo
<1>3. TypeOK' /\ (\A t \in Thread : LocalOK(t)')
  BY <1>1, TypeStep, LocalStep
<1>4. OnlyAttachedRuns'
  BY <1>1, <1>2, AttachedStep
<1>5. ~overlap' => AloneOK'
  BY SMTT(30), ZenonT(20), <1>2, AloneStep
<1> QED
  BY <1>3, <1>4, <1>5 DEF ModulesInv

LEMMA ModulesImplies ==
  ModulesInv => ManagerHolds /\ RestartKeepsDesired
<1> SUFFICES ASSUME ModulesInv PROVE ManagerHolds /\ RestartKeepsDesired
  OBVIOUS
<1>1. TypeOK /\ (~overlap => AloneOK)
  BY DEF ModulesInv
<1>2. RecordIsTrue
  BY <1>1 DEF RecordIsTrue, AloneOK, RecordOK
<1>3. RestartKeepsDesired
  <2>1. Run \in Thread
    BY DEF Thread
  <2> QED
    BY <1>1, <2>1 DEF RestartKeepsDesired, Idle, AloneOK, StoreOK
<1>4. ASSUME Settled, NEW i \in Id \ (halted \cup last.failed)
      PROVE  IF Merged[i] # Nothing
               THEN /\ attached[i] = Merged[i].ver /\ unit[i] = Merged[i].cfg
                    /\ i \in authed \/ auth[i] = "unwritten"
               ELSE attached[i] = NoVer \/ Unrecorded(i)
  <2>1. AloneOK /\ last.want = Merged /\ \A t \in Thread : th[t].pc \notin InPass
    BY SMTT(30), ZenonT(20), <1>1, <1>4 DEF Settled, Idle, InPass, Detaching, Attaching, Syncing
  <2>2. IF Merged[i] # Nothing
          THEN current[i] = Merged[i].ver /\ currentConfig[i] = Merged[i].cfg ELSE current[i] = NoVer
    BY <1>4, <2>1 DEF AloneOK, LastOK
  <2>3. Merged[i] # Nothing => Merged[i].ver # NoVer
    <3>1. Merged[i] \in Entry \cup {Nothing}
      BY ZenonT(40), <1>1 DEF Merged, TypeOK, DesiredSet
    <3> QED
      BY SMTT(30), ZenonT(20), <3>1, ModulesAssumption DEF Entry, NoVer
  <2>4. current[i] # NoVer => /\ attached[i] = current[i] /\ unit[i] = currentConfig[i]
                              /\ i \in authed \/ auth[i] = "unwritten"
    BY Zenon, <1>4, <2>1 DEF AloneOK, RecordOK, RunOK
  <2> QED
    BY <2>2, <2>3, <2>4 DEF Unrecorded
<1> QED
  BY Zenon, <1>2, <1>3, <1>4 DEF ManagerHolds, RunsWhatIsWanted

\* While nobody is at work, the modules of the desired set are attached and run as
\* wanted, but for those whose pass failed, and what the reconciler records as attached
\* is attached: Reconcile, applyDesired, detach and the snapshot publisher.
THEOREM ManagerHoldsCorrect == Spec => []ManagerHolds
BY ModulesInit, ModulesStep, ModulesImplies, PTL DEF Spec

\* The two stores hold the desired sets of the manager whenever nobody is at work and
\* no write failed: handleDesired, WriteLocalDesired and the two readers at start-up.
THEOREM RestartKeepsDesiredCorrect == Spec => []RestartKeepsDesired
BY ModulesInit, ModulesStep, ModulesImplies, PTL DEF Spec

\* Only an uninstall takes an image away, and not one it left recorded, unless the
\* proxy wants that very version: UninstallModule, after its pass.
LEMMA ImageStep ==
  ModulesInv /\ [Next]_vars =>
    \A i \in Id, v \in Ver :
      <<i, v>> \in raw /\ <<i, v>> \notin raw' /\ ~overlap /\ current[i] = v => proxyDesired[i].ver = v
<1> SUFFICES ASSUME ModulesInv, [Next]_vars, NEW i \in Id, NEW v \in Ver,
                    <<i, v>> \in raw, <<i, v>> \notin raw', ~overlap, current[i] = v
             PROVE  proxyDesired[i].ver = v
  BY Zenon
<1>1. PICK t \in Thread : RemoveImage(t)
  <2>1. ASSUME NEW t \in Thread, Work(t), ~RemoveImage(t) PROVE raw \subseteq raw'
    <3>1. CASE Pass(t)
      BY Zenon, <3>1 DEF Pass, Merge, Diff, Stop, Detach, Want, Fetch, Attach, RetryStop, RetryDetach,
        RetryAttach, EnsureCreds, Config, Start, CfgStop, CfgStart, diskVars
    <3> QED
      BY <2>1, <3>1 DEF Work, ConfirmLocal, WriteTmp, RenameTmp, SetProxy, diskVars
  <2> QED
    BY ZenonT(40), <2>1 DEF Next, HandleDesired, StageModule, ConfirmModule, UninstallModule, AgentDies, Reboot, Restart,
      vars, diskVars
<1>2. th[t].job.id = i /\ th[t].pc = "rm"
  BY <1>1 DEF RemoveImage
<1>3. UninstallOK(t)
  BY <1>2 DEF ModulesInv, AloneOK
<1>4. localDesired[i] = Nothing /\ current[i] \in {NoVer, Merged[i].ver}
  BY <1>2, <1>3 DEF UninstallOK
<1>5. Merged[i] = proxyDesired[i]
  BY <1>4 DEF Merged
<1> QED
  BY <1>4, <1>5, ModulesAssumption DEF NoVer

\* An uninstall never deletes the image of a module it left attached and recorded,
\* unless the proxy wants that very version or two goroutines met: UninstallModule.
THEOREM ImageOutlivesModuleCorrect == Spec => ImageOutlivesModule
<1>1. ModulesInv /\ [Next]_vars =>
        [\A i \in Id, v \in Ver :
           <<i, v>> \in raw /\ <<i, v>> \notin raw' /\ ~overlap /\ current[i] = v => proxyDesired[i].ver = v]_vars
  BY ImageStep
<1> QED
  BY <1>1, ModulesInit, ModulesStep, PTL DEF Spec, ImageOutlivesModule

=============================================================================
