----------------------------- MODULE ApplyImage -----------------------------
(***************************************************************************)
(* The apply_image RPC of the agent (agent/internal/apply/rpc.go): every   *)
(* request is acknowledged on receipt and served by a goroutine of its own *)
(* that downloads the artifact and its signature bundle to two fixed paths,*)
(* checks them, and hands the artifact's path to swupdate.                 *)
(*                                                                         *)
(* An artifact stands for its bytes.  Two goroutines that copy into the    *)
(* same path leave the last one's bytes or a mixture, which is no artifact.*)
(***************************************************************************)
EXTENDS FiniteSets

CONSTANTS
  Req,        \* the requests a behaviour may receive, one goroutine each
  Artifact,   \* what can be downloaded
  Signed      \* those whose published bundle verifies

VARIABLES
  skipVerify, \* WAYPOINT_SKIP_VERIFY=1, a development image
  pc,        \* where each request is
  asked,     \* the artifact its URL serves
  want,      \* its expected_sha256, or Any
  swu,       \* CacheDir/incoming.swu
  bundle,    \* CacheDir/incoming.swu.cosign: the artifact it is of
  installed, \* what swupdate was given for a request and accepted, or Nothing
  reply,     \* the status the caller was sent
  failed,    \* the requests for which OnApplyFailed was called
  trust,     \* Sigstore.once: the trusted root was fetched, or could not be
  overlap    \* history: two requests were being served at once

fileVars == <<swu, bundle>>
vars == <<skipVerify, pc, asked, want, fileVars, installed, reply, failed, trust, overlap>>

Any == "any"
Nothing == "nothing"
Mixed == "mixed"
Content == Artifact \cup {Nothing, Mixed}

Running == {"swu", "swuCopy", "bundle", "bundleCopy", "sha", "verify", "swupdate"}

TypeOK ==
  /\ skipVerify \in BOOLEAN
  /\ pc \in [Req -> {"new", "done"} \cup Running]
  /\ asked \in [Req -> Artifact]
  /\ want \in [Req -> Artifact \cup {Any}]
  /\ swu \in Content
  /\ bundle \in Content
  /\ installed \in [Req -> Content]
  /\ reply \in [Req -> {"none", "accepted", "error"}]
  /\ failed \subseteq Req
  /\ trust \in {"unset", "fetched", "failed"}
  /\ overlap \in BOOLEAN

Init ==
  /\ skipVerify \in BOOLEAN
  /\ pc = [r \in Req |-> "new"]
  /\ asked \in [Req -> Artifact]
  /\ want \in [Req -> Artifact \cup {Any}]
  /\ swu = Nothing /\ bundle = Nothing
  /\ installed = [r \in Req |-> Nothing]
  /\ reply = [r \in Req |-> "none"]
  /\ failed = {}
  /\ trust = "unset"
  /\ overlap = FALSE

\* The environment of the process never changes.
Goto(r, from, to) == pc[r] = from /\ pc' = [pc EXCEPT ![r] = to] /\ UNCHANGED skipVerify

\* fail: logged, reported as an alert, and the goroutine returns.
Fail(r, from) ==
  /\ Goto(r, from, "done")
  /\ failed' = failed \cup {r}
  /\ UNCHANGED <<asked, want, fileVars, installed, reply, overlap>>

\* onMessage: a request that cannot be read, or has no URL, is answered with
\* an error and nothing else happens.
Refuse(r) ==
  /\ Goto(r, "new", "done")
  /\ reply' = [reply EXCEPT ![r] = "error"]
  /\ UNCHANGED <<asked, want, fileVars, installed, failed, trust, overlap>>

\* onMessage: acknowledge, then go fetchVerifyApply.
Accept(r) ==
  /\ Goto(r, "new", "swu")
  /\ reply' = [reply EXCEPT ![r] = "accepted"]
  /\ overlap' = (overlap \/ \E q \in Req : pc[q] \in Running)
  /\ UNCHANGED <<asked, want, fileVars, installed, failed, trust>>

\* download: the server has answered and os.Create truncates the file; then
\* the body is copied, mixed with what another goroutine copies there.
Truncate(r) ==
  \/ /\ Goto(r, "swu", "swuCopy") /\ swu' = Nothing /\ UNCHANGED bundle
     /\ UNCHANGED <<asked, want, installed, reply, failed, trust, overlap>>
  \/ /\ Goto(r, "bundle", "bundleCopy") /\ bundle' = Nothing /\ UNCHANGED swu
     /\ UNCHANGED <<asked, want, installed, reply, failed, trust, overlap>>

Copied(r) == {asked[r]} \cup {m \in {Mixed} : overlap}

CopySwu(r) ==
  /\ Goto(r, "swuCopy", IF skipVerify THEN "sha" ELSE "bundle")
  /\ swu' \in Copied(r)
  /\ UNCHANGED <<asked, want, bundle, installed, reply, failed, trust, overlap>>

CopyBundle(r) ==
  /\ Goto(r, "bundleCopy", "sha")
  /\ bundle' \in Copied(r)
  /\ UNCHANGED <<asked, want, swu, installed, reply, failed, trust, overlap>>

\* A failed download, of either file, or a cache directory that cannot be made.
DownloadFails(r) == \E at \in {"swu", "swuCopy", "bundle", "bundleCopy"} : Fail(r, at) /\ UNCHANGED trust

\* sha256File, when the request names a hash.
CheckSha(r) ==
  \/ /\ want[r] \in {Any, swu}
     /\ Goto(r, "sha", "verify")
     /\ UNCHANGED <<asked, want, fileVars, installed, reply, failed, trust, overlap>>
  \/ want[r] \notin {Any, swu} /\ Fail(r, "sha") /\ UNCHANGED trust

\* Variant: the bundle is not looked at.
VerifyNothing(r) ==
  /\ Goto(r, "verify", "swupdate")
  /\ UNCHANGED <<asked, want, fileVars, installed, reply, failed, trust, overlap>>

\* Sigstore.init runs once in the life of the agent; its error is kept.
FetchTrust == trust' \in IF trust = "unset" THEN {"fetched", "failed"} ELSE {trust}

\* Sigstore.Verify: the bundle is of these bytes and of the pinned signer.
Verify(r) ==
  \/ /\ skipVerify
     /\ Goto(r, "verify", "swupdate")
     /\ UNCHANGED <<asked, want, fileVars, installed, reply, failed, trust, overlap>>
  \/ /\ ~skipVerify
     /\ FetchTrust
     /\ IF trust' = "fetched" /\ swu \in Signed /\ bundle = swu
          THEN /\ Goto(r, "verify", "swupdate")
               /\ UNCHANGED <<asked, want, fileVars, installed, reply, failed, overlap>>
          ELSE Fail(r, "verify")

\* Variant: the error of runSwupdate is dropped.
SwupdateFailsSilently(r) ==
  /\ Goto(r, "swupdate", "done")
  /\ UNCHANGED <<asked, want, fileVars, installed, reply, failed, trust, overlap>>

\* runSwupdate: no selector, or swupdate refuses the file.
SwupdateFails(r) == Fail(r, "swupdate") /\ UNCHANGED trust

\* runSwupdate: swupdate opens the path, now.
Swupdate(r) ==
  /\ swu \in Artifact
  /\ Goto(r, "swupdate", "done")
  /\ installed' = [installed EXCEPT ![r] = swu]
  /\ UNCHANGED <<asked, want, fileVars, reply, failed, trust, overlap>>

Serve(r) ==
  \/ Truncate(r) \/ CopySwu(r) \/ CopyBundle(r) \/ DownloadFails(r)
  \/ CheckSha(r) \/ Verify(r) \/ SwupdateFails(r) \/ Swupdate(r)

Next == \E r \in Req : Refuse(r) \/ Accept(r) \/ Serve(r)

Spec == Init /\ [][Next]_vars

-----------------------------------------------------------------------------
\* When requests are served one after the other, swupdate is only given the
\* artifact that was asked for, with the hash that was asked for, and outside
\* a development image one whose signature was verified.
InstalledAsAsked ==
  ~overlap => \A r \in Req : installed[r] # Nothing =>
    /\ installed[r] = asked[r]
    /\ want[r] \in {Any, installed[r]}
    /\ skipVerify \/ installed[r] \in Signed

\* The outcome of an acknowledged request is never lost: swupdate takes it
\* over, or an alert is raised.
Reported ==
  \A r \in Req : reply[r] = "accepted" ~> (installed[r] # Nothing \/ r \in failed)

=============================================================================
