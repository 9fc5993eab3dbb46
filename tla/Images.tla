-------------------------------- MODULE Images --------------------------------
(***************************************************************************)
(* OS images seen from the proxy: the catalogue of releases                *)
(* (proxy/internal/images, db/releases_repo.go), the request that a rover  *)
(* apply one (api/apply_image.go, db/images.go), and the version the rover *)
(* reports (agent/internal/image, proxy/internal/heartbeat).               *)
(*                                                                         *)
(* A version is a channel and a number; 0 is a tag that is no semver.  The *)
(* repositories (external) publish releases and may add to them later.     *)
(***************************************************************************)
EXTENDS Naturals, Sequences, SequencesExt, FiniteSets

CONSTANTS
  Repo,
  MaxVer,     \* the highest version
  Apply,      \* requests to apply an image
  MaxUploads, \* assets published
  MaxOps      \* sources registered, checks, reports, and restarts of rover and proxy

Channel == {"dev", "prod"}
Ver == 0 .. MaxVer
None == "none"
Unknown == <<>>

VARIABLES
  asset,      \* what the repositories have: image or checksum file of a version
  source,     \* image_source: the repository of each channel
  release,    \* image_release, in the order of ingestion
  chk,        \* the check that is running
  running,    \* the version the rover runs
  report,     \* its report on the way, or Unknown
  told,       \* image_version of the rovers table, or Unknown
  leaf,       \* the rover is connected
  req,        \* image_apply_history, with what was asked for
  work,       \* requests the rover has accepted and not finished
  uploads, ops,
  behind,     \* history: a report of the present version was lost
  downgraded  \* history: an offer, taken as offered, was no upgrade

catalogue == <<source, release, chk>>
rover == <<running, report, told, leaf, behind>>
applies == <<req, work, downgraded>>
vars == <<asset, catalogue, rover, applies, uploads, ops>>

Idle == [pc |-> "idle", left |-> <<>>, repo |-> None, known |-> {}, todo |-> <<>>]

TypeOK ==
  /\ asset \subseteq Repo \X Ver \X (Channel \cup {"sums"})
  /\ source \in [Channel -> Repo \cup {None}]
  /\ \A c \in Channel : \A i \in DOMAIN release[c] : release[c][i].ver \in Ver
  /\ running \in Channel \X Ver /\ {leaf, behind, downgraded} \subseteq BOOLEAN
  /\ \A a \in Apply : req[a].status \in {None, "pending", "accepted", "error"}

Init ==
  /\ asset = {} /\ source = [c \in Channel |-> None]
  /\ release = [c \in Channel |-> <<>>] /\ chk = Idle
  /\ running \in Channel \X {1} /\ report = Unknown /\ told = Unknown /\ leaf = TRUE
  /\ req = [a \in Apply |-> [status |-> None, pc |-> "new", ver |-> Unknown, fresh |-> FALSE]]
  /\ work = {} /\ uploads = 0 /\ ops = 0 /\ behind = TRUE /\ downgraded = FALSE

Ops == ops < MaxOps /\ ops' = ops + 1

-----------------------------------------------------------------------------
(* The catalogue. *)

\* A repository publishes an image, or the checksums of a release.
Upload(repo, v, kind) ==
  /\ uploads < MaxUploads /\ uploads' = uploads + 1
  /\ <<repo, v, kind>> \notin asset /\ asset' = asset \cup {<<repo, v, kind>>}
  /\ UNCHANGED <<catalogue, rover, applies, ops>>

\* HandleRegisterSource, RegisterSource: one repository for a channel; the releases
\* of the one before stay.
RegisterSource(c, repo) ==
  /\ Ops /\ source' = [source EXCEPT ![c] = repo]
  /\ UNCHANGED <<asset, release, chk, rover, applies, uploads>>

Known(c) == {release[c][i].ver : i \in DOMAIN release[c]}

\* The channels that have a source, in order.
ListSources == SelectSeq(<<"dev", "prod">>, LAMBDA c : source[c] # None)

CheckAll ==
  /\ Ops /\ chk = Idle /\ chk' = [Idle EXCEPT !.pc = "list", !.left = ListSources]
  /\ UNCHANGED <<asset, source, release, rover, applies, uploads>>

\* GitHub.ListReleases: the releases of a repository, the newest first.
Releases(repo) ==
  SetToSortSeq({v \in Ver : \E kind \in Channel \cup {"sums"} : <<repo, v, kind>> \in asset}, >)

\* checkSource, up to its loop: the releases, and what the table has.
ListReleases ==
  LET c == Head(chk.left)
      repo == source[c]
  IN
  /\ chk.pc = "list" /\ chk.left # <<>>
  /\ chk' = [chk EXCEPT !.pc = "ingest", !.repo = repo, !.known = Known(c),
               !.todo = Releases(repo)]
  /\ UNCHANGED <<asset, source, release, rover, applies, uploads, ops>>

\* IngestRelease: on a conflict nothing.
IngestRelease(c, r) ==
  release' = IF r.ver \in Known(c) THEN release
             ELSE [release EXCEPT ![c] = Append(@, r)]

\* ParseSha256Sums of the file SHA256SUMS: there is no checksum when the file is not
\* there or cannot be fetched.
Checksum(repo, v, fetched) == fetched /\ <<repo, v, "sums">> \in asset

\* One release: skipped when it is known or has no image for the channel.
CheckRelease(fetched) ==
  LET c == Head(chk.left)
      v == Head(chk.todo)
  IN
  /\ chk.pc = "ingest" /\ chk.todo # <<>>
  /\ chk' = [chk EXCEPT !.todo = Tail(@), !.known = @ \cup {v}]
  /\ IF v \in chk.known \/ <<chk.repo, v, c>> \notin asset THEN UNCHANGED release
     ELSE IngestRelease(c, [ver |-> v, sha |-> Checksum(chk.repo, v, fetched)])
  /\ UNCHANGED <<asset, source, rover, applies, uploads, ops>>

CheckedSource ==
  /\ chk.pc = "ingest" /\ chk.todo = <<>>
  /\ chk' = [chk EXCEPT !.pc = "list", !.left = Tail(@)]
  /\ UNCHANGED <<asset, source, release, rover, applies, uploads, ops>>

\* The check is done; or the repository or the database fails, and the sources that
\* are left are not looked at.
CheckEnds ==
  /\ chk # Idle /\ chk' = Idle
  /\ UNCHANGED <<asset, source, release, rover, applies, uploads, ops>>

\* IsNewerVersionSemver.
IsNewer(candidate, other) == candidate # 0 /\ (other = 0 \/ candidate > other)

Newest(best, v) == IF IsNewer(v, best) THEN v ELSE best
\* Variant: versions that are no semver are neither replaced nor taken.
LatestKeepsFirst(c) ==
  LET newest(best, v) == IF v > best /\ best # 0 THEN v ELSE best
      vers == [i \in DOMAIN release[c] |-> release[c][i].ver]
  IN FoldLeft(newest, Head(vers), Tail(vers))

\* LatestRelease, where there is one.
LatestRelease(c) ==
  LET vers == [i \in DOMAIN release[c] |-> release[c][i].ver]
  IN FoldLeft(Newest, Head(vers), Tail(vers))

\* HandleReleasesFleet: the channel is the one of the version in the table, and
\* nothing is an update before there is one.
Offered ==
  IF told = Unknown \/ release[told[1]] = <<>> \/ ~IsNewer(LatestRelease(told[1]), told[2])
    THEN Unknown
    ELSE <<told[1], LatestRelease(told[1])>>

-----------------------------------------------------------------------------
(* Applying an image. *)

\* newApplyImageHandler: the request is recorded, then sent to the rover.
RecordApply(a) ==
  /\ req[a].pc = "new" /\ Offered # Unknown
  /\ req' = [req EXCEPT ![a] =
               [status |-> "pending", pc |-> "sent", ver |-> Offered,
                fresh |-> told = running /\ work = {}]]
  /\ UNCHANGED <<asset, catalogue, rover, work, downgraded, uploads, ops>>

\* onMessage: the rover answers before it does the work.
OnMessage(a) ==
  /\ req[a].pc = "sent" /\ leaf
  /\ req' = [req EXCEPT ![a].pc = "answered"] /\ work' = work \cup {a}
  /\ UNCHANGED <<asset, catalogue, rover, downgraded, uploads, ops>>

\* The handler's last write to its row.
UpdateStatus(a, pc, status) == req' = [req EXCEPT ![a].pc = pc, ![a].status = status]

Accepted(a) ==
  /\ req[a].pc = "answered" /\ UpdateStatus(a, "done", "accepted")
  /\ UNCHANGED <<asset, catalogue, rover, work, downgraded, uploads, ops>>

\* No connection, or no answer in applyImageTimeout; the rover may have the request.
Timeout(a) ==
  /\ req[a].pc \in {"sent", "answered"}
  /\ UpdateStatus(a, IF req[a].pc = "sent" THEN "done" ELSE "late", "error")
  /\ UNCHANGED <<asset, catalogue, rover, work, downgraded, uploads, ops>>

\* fetchVerifyApply and the reboot into the new version, which is reported.
Installs(a) ==
  /\ a \in work /\ work' = {} /\ running' = req[a].ver
  /\ downgraded' = (downgraded
       \/ /\ req[a].fresh /\ (\A b \in Apply \ {a} : req[b].pc = "new")
          /\ running'[1] # running[1] \/ ~IsNewer(running'[2], running[2]))
  /\ report' = Unknown /\ behind' = TRUE
  /\ UNCHANGED <<asset, catalogue, told, leaf, req, uploads, ops>>

\* It fails: an alert, and the rover stays as it is.
ApplyFails(a) ==
  /\ a \in work /\ work' = work \ {a}
  /\ UNCHANGED <<asset, catalogue, rover, req, downgraded, uploads, ops>>

\* The proxy dies: its requests are never answered, and the check is gone.
Restart ==
  /\ Ops /\ chk' = Idle
  /\ req' = [a \in Apply |-> IF req[a].pc \in {"sent", "answered"}
                              THEN [req[a] EXCEPT !.pc = "dead"] ELSE req[a]]
  /\ UNCHANGED <<asset, source, release, rover, work, downgraded, uploads>>

-----------------------------------------------------------------------------
(* The version in the table. *)

\* publishOnce, at the start and every minute; lost without a leaf.
PublishOnce ==
  /\ Ops /\ report = Unknown
  /\ report' = IF leaf THEN running ELSE Unknown
  /\ UNCHANGED <<asset, catalogue, running, told, leaf, behind, applies, uploads>>

UpdateImageVersion(v) == told' = v /\ behind' = FALSE

OnImage ==
  /\ report # Unknown /\ report' = Unknown /\ UpdateImageVersion(report)
  /\ UNCHANGED <<asset, catalogue, running, leaf, applies, uploads, ops>>

\* Any version comes in by another way: a rollback, or an image put on by hand.
Reimaged(v) ==
  /\ Ops /\ running' = v /\ work' = {} /\ report' = Unknown /\ behind' = TRUE
  /\ req' = [a \in Apply |-> [req[a] EXCEPT !.fresh = FALSE]]
  /\ UNCHANGED <<asset, catalogue, told, leaf, downgraded, uploads>>

LeafChanges ==
  /\ Ops /\ leaf' = ~leaf /\ report' = Unknown
  /\ UNCHANGED <<asset, catalogue, running, told, behind, applies, uploads>>

Next ==
  \/ \E repo \in Repo :
       \/ \E v \in Ver, kind \in Channel \cup {"sums"} : Upload(repo, v, kind)
       \/ \E c \in Channel : RegisterSource(c, repo)
  \/ CheckAll \/ ListReleases \/ CheckedSource \/ CheckEnds
  \/ \E fetched \in BOOLEAN : CheckRelease(fetched)
  \/ \E a \in Apply : RecordApply(a) \/ OnMessage(a) \/ Accepted(a) \/ Timeout(a)
                        \/ Installs(a) \/ ApplyFails(a)
  \/ Restart \/ PublishOnce \/ OnImage \/ LeafChanges
  \/ \E v \in Channel \X Ver : Reimaged(v)

Spec == Init /\ [][Next]_vars

-----------------------------------------------------------------------------
\* The release offered for a channel is the newest of it that was ingested, in
\* whatever order checks brought them and whatever tags are no versions, and no
\* version is there twice (LatestRelease, IngestRelease).
LatestIsNewest ==
  \A c \in Channel :
    /\ \A i, j \in DOMAIN release[c] : release[c][i].ver = release[c][j].ver => i = j
    /\ release[c] # <<>> => \A v \in Known(c) : ~IsNewer(v, LatestRelease(c))

\* Taking what is offered never puts an older image or one of the other channel on a
\* rover (HandleReleasesFleet), unless the table was behind the rover or other
\* requests were under way.
OffersUpgrade == ~downgraded

\* The history of requests is true: one that says "accepted" reached the rover, one
\* that says "error" did not unless its answer was late, and none is pending unless
\* its handler still waits or died (newApplyImageHandler).
HistoryIsTrue ==
  \A a \in Apply :
    /\ req[a].status = "accepted" => req[a].pc = "done"
    /\ a \in work => req[a].status = "accepted" \/ req[a].pc \in {"answered", "late", "dead"}
    /\ req[a].status = "pending" => req[a].pc \in {"sent", "answered", "dead"}

\* The table names the version the rover runs, until the rover changes and its next
\* report arrives (onImage, publishOnce): reports are not mixed up with older ones.
TableFollows == behind \/ told = running
===============================================================================
