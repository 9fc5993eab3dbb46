------------------------------ MODULE Artifacts ------------------------------
(***************************************************************************)
(* The files behind the module registry of the proxy: how a release comes  *)
(* in (HandleRegister, ingestRelease), the stores it is kept in (blob.go,  *)
(* blobbucket.go), what a rover and a browser get of it, and what is left  *)
(* when the proxy is deployed again.                                       *)
(*                                                                         *)
(* Registry has the tables, with requests that overlap.  Here a request is *)
(* alone, but every fetch and every write of it is a step, and the proxy   *)
(* may die between two.                                                    *)
(***************************************************************************)
EXTENDS Naturals, FiniteSets

CONSTANTS
  MaxVer,     \* releases
  MaxLives,   \* deployments of the proxy
  MaxFaults,  \* calls that fail
  MaxAsked    \* requests

VARIABLES
  gh,         \* the repository: its latest release, which are complete, whether it is private
  era,        \* the store of this deployment: "disk" or "bucket"
  raw,        \* per store, the versions whose image is there
  tree,       \* per store, the files of static trees
  rows,       \* module_versions: the store of raw_path, None without a row
  mod,        \* module_registry: registered, and under which key the token is sealed
  box,        \* MODULE_TOKEN_KEY of this deployment, 0 for none
  pin,        \* rover_module_state: the version a rover should run, 0 for none
  verifier,   \* lazyVerifier
  work,       \* the request
  hist

vars == <<gh, era, raw, tree, rows, mod, box, pin, verifier, work, hist>>

Ver == 1 .. MaxVer
Store == {"disk", "bucket"}
File == {"index.html", "mesh.stl"}
None == "none"
Idle == [op |-> None, pc |-> "done", ver |-> 0, todo |-> {}, key |-> 0]

Known == {v \in Ver : rows[v] # None}
IsNewerVersion(v) == \A w \in Known : v > w

Init ==
  /\ gh \in [latest : {1}, whole : {W \in SUBSET Ver : 1 \in W}, private : BOOLEAN]
  /\ era \in Store /\ box \in 0 .. 1
  /\ raw = [s \in Store |-> {}] /\ tree = [s \in Store |-> {}]
  /\ rows = [v \in Ver |-> None] /\ mod = [there |-> FALSE, key |-> 0] /\ pin = 0
  /\ verifier = "unused" /\ work = Idle
  /\ hist = [lives |-> 1, faults |-> 0, asked |-> 0, lost |-> {}, checked |-> FALSE]

-----------------------------------------------------------------------------
(* The stores. *)

\* Disk: a path outside the root is refused; bucket: one that is not a key of it.
\* Either way a path of the other store.
Get(v) == rows[v] = era /\ v \in raw[era]

\* Variant: the registry goes on storing on the disk.
PutRawOnDisk(v) == raw' = [raw EXCEPT !["disk"] = @ \cup {v}]

\* A temporary file and a rename, an object committed on Close: all or nothing.
PutRaw(v) == raw' = [raw EXCEPT ![era] = @ \cup {v}]
PutStatic(v, f) == tree' = [tree EXCEPT ![era] = @ \cup {<<v, f>>}]

\* The store of today deletes only what is its own.
DeleteRaw(vs) == raw' = [raw EXCEPT ![era] = @ \ {v \in vs : rows[v] = era}]
DeleteStatic(vs) == tree' = [tree EXCEPT ![era] = {e \in @ : e[1] \notin vs}]

\* signBlobPath, VerifyBlobSig: the key comes from the operator's seed, which no
\* deployment changes.
signBlobPath(v) == <<"sig", v>>
VerifyBlobSig(v, sig) == sig = signBlobPath(v)

HandleServeRaw(v, sig) == VerifyBlobSig(v, sig) /\ v \in Known /\ Get(v)

-----------------------------------------------------------------------------
(* The fetches. *)

\* fetchBytes: anonymous.
fetchBytes == ~gh.private

\* GitHub.get, with the token if it can be opened.
Readable(key) == ~gh.private \/ key # 0

\* decryptToken: none, no box, or a box with another key: no token.
decryptToken == IF box # 0 /\ mod.key = box THEN mod.key ELSE 0

\* The trust root is fetched once; an error is kept as well.
Verify(fetched) ==
  /\ verifier' = IF verifier = "unused" THEN (IF fetched THEN "ready" ELSE "broken") ELSE verifier
  /\ hist' = IF verifier = "unused" /\ ~fetched THEN [hist EXCEPT !.faults = @ + 1] ELSE hist
  /\ (verifier = "unused" /\ ~fetched) => hist.faults < MaxFaults

-----------------------------------------------------------------------------
(* The requests. *)

Begins(w) ==
  /\ work = Idle /\ hist.asked < MaxAsked /\ work' = w
  /\ UNCHANGED <<gh, era, raw, tree, rows, mod, box, pin, verifier>>

Asked == hist' = [hist EXCEPT !.asked = @ + 1]

\* HandleRegister up to the fetch of the manifest: the token is sealed first, which
\* needs a key.
HandleRegister(key) ==
  /\ key \in {0, box} /\ fetchBytes /\ IsNewerVersion(gh.latest) /\ Asked
  /\ Begins([op |-> "register", pc |-> "fetch", ver |-> gh.latest, todo |-> {}, key |-> key])

\* HandleCheckUpdates and CheckModule, which takes the newest release first; those
\* before it are then not newer.
HandleCheckUpdates ==
  /\ mod.there
  /\ hist' = [hist EXCEPT !.asked = @ + 1, !.checked = Readable(decryptToken)]
  /\ IF Readable(decryptToken) /\ IsNewerVersion(gh.latest)
       THEN Begins([op |-> "check", pc |-> "fetch", ver |-> gh.latest, todo |-> {}, key |-> decryptToken])
       ELSE Begins(Idle)

\* The image and its signature, by the name of the version: HandleRegister asks the
\* release that is the latest now, ingestRelease the one it listed.
Fetch ==
  LET there == IF work.op = "register" THEN fetchBytes /\ gh.latest = work.ver
               ELSE Readable(work.key)
  IN
  /\ work.pc = "fetch"
  /\ work' = IF there /\ work.ver \in gh.whole THEN [work EXCEPT !.pc = "verify"] ELSE Idle
  /\ UNCHANGED <<gh, era, raw, tree, rows, mod, box, pin, verifier, hist>>

Verifies(fetched) ==
  /\ work.pc = "verify" /\ Verify(fetched)
  /\ work' = IF verifier' = "ready" THEN [work EXCEPT !.pc = "put"] ELSE Idle
  /\ UNCHANGED <<gh, era, raw, tree, rows, mod, box, pin>>

Put ==
  /\ work.pc = "put" /\ PutRaw(work.ver) /\ work' = [work EXCEPT !.pc = "static", !.todo = File]
  /\ UNCHANGED <<gh, era, tree, rows, mod, box, pin, verifier, hist>>

\* cacheStaticTree, over extractStaticTree: the files one by one, in no order.
cacheStaticTree(f) ==
  /\ work.pc = "static" /\ f \in work.todo /\ PutStatic(work.ver, f)
  /\ work' = [work EXCEPT !.todo = @ \ {f},
                          !.pc = IF work.todo = {f} THEN "rows" ELSE "static"]
  /\ UNCHANGED <<gh, era, raw, rows, mod, box, pin, verifier, hist>>

\* RegisterModule: a token given before is kept when none is given.
RegisterModule ==
  /\ work.pc = "rows" /\ work.op = "register"
  /\ mod' = [there |-> TRUE, key |-> IF work.key # 0 THEN work.key ELSE mod.key]
  /\ work' = [work EXCEPT !.op = "registered"]
  /\ UNCHANGED <<gh, era, raw, tree, rows, box, pin, verifier, hist>>

\* IngestVersion: a row there is stays.
IngestVersion ==
  /\ work.pc = "rows" /\ work.op # "register" /\ work' = Idle
  /\ rows' = [rows EXCEPT ![work.ver] = IF @ = None THEN era ELSE @]
  /\ UNCHANGED <<gh, era, raw, tree, mod, box, pin, verifier, hist>>

\* A fetch, the store or the database fails.
Fails ==
  /\ work # Idle /\ hist.faults < MaxFaults /\ work' = Idle
  /\ hist' = [hist EXCEPT !.faults = @ + 1, !.checked = FALSE]
  /\ UNCHANGED <<gh, era, raw, tree, rows, mod, box, pin, verifier>>

\* HandleSetDesired.
Pin(v) ==
  /\ mod.there /\ work = Idle /\ pin # v /\ pin' = v
  /\ hist.asked < MaxAsked /\ Asked
  /\ UNCHANGED <<gh, era, raw, tree, rows, mod, box, verifier, work>>

\* HandleDeleteModule, not while a rover has it pinned; the files as far as they go.
Delete(left) ==
  /\ mod.there /\ work = Idle /\ pin = 0 /\ left \subseteq Known
  /\ left # {} => hist.faults < MaxFaults
  /\ rows' = [v \in Ver |-> None] /\ mod' = [there |-> FALSE, key |-> 0]
  /\ DeleteRaw(Known \ left) /\ DeleteStatic(Known \ left)
  /\ hist.asked < MaxAsked
  /\ hist' = [hist EXCEPT !.asked = @ + 1, !.lost = {}, !.checked = FALSE,
                          !.faults = IF left = {} THEN @ ELSE @ + 1]
  /\ UNCHANGED <<gh, era, box, pin, verifier, work>>

\* HandleServeStatic and repairStatic: a miss puts the whole tree there again.
HandleServeStatic(f) ==
  /\ pin # 0 /\ <<pin, f>> \notin tree[era] /\ pin \in Known /\ Get(pin)
  /\ tree' = [tree EXCEPT ![era] = @ \cup ({pin} \X File)]
  /\ UNCHANGED <<gh, era, raw, rows, mod, box, pin, verifier, work, hist>>

\* A new container: its disk is empty, and it may have been given the bucket or
\* another key.
Redeploy(store, key) ==
  /\ hist.lives < MaxLives /\ (era = "bucket" => store = "bucket")
  /\ era' = store /\ box' = key /\ verifier' = "unused" /\ work' = Idle
  /\ raw' = [raw EXCEPT !["disk"] = {}] /\ tree' = [tree EXCEPT !["disk"] = {}]
  /\ hist' = [hist EXCEPT !.lives = @ + 1, !.checked = FALSE,
                          !.lost = @ \cup {v \in Ver : rows[v] = "disk"}]
  /\ UNCHANGED <<gh, rows, mod, pin>>

\* A release, complete or not; the repository is opened or closed.
Release ==
  /\ gh.latest < MaxVer /\ gh' = [gh EXCEPT !.latest = @ + 1]
  /\ hist' = [hist EXCEPT !.checked = FALSE]
  /\ UNCHANGED <<era, raw, tree, rows, mod, box, pin, verifier, work>>
Visibility ==
  /\ hist.asked < MaxAsked /\ gh' = [gh EXCEPT !.private = ~@]
  /\ hist' = [hist EXCEPT !.asked = @ + 1, !.checked = FALSE]
  /\ UNCHANGED <<era, raw, tree, rows, mod, box, pin, verifier, work>>

Next ==
  \/ \E key \in 0 .. 2 : HandleRegister(key)
  \/ HandleCheckUpdates \/ Fetch \/ Put \/ RegisterModule \/ IngestVersion \/ Fails
  \/ \E ok \in BOOLEAN : Verifies(ok)
  \/ \E f \in File : cacheStaticTree(f) \/ HandleServeStatic(f)
  \/ \E v \in Ver \cup {0} : Pin(v)
  \/ \E left \in SUBSET Ver : Delete(left)
  \/ \E store \in Store, key \in 0 .. 2 : Redeploy(store, key)
  \/ Release \/ Visibility

Spec == Init /\ [][Next]_vars

-----------------------------------------------------------------------------
TypeOK ==
  /\ gh.latest \in Ver /\ era \in Store /\ box \in 0 .. 2 /\ pin \in 0 .. MaxVer
  /\ rows \in [Ver -> Store \cup {None}] /\ verifier \in {"unused", "ready", "broken"}
  /\ \A s \in Store : raw[s] \subseteq Ver /\ tree[s] \subseteq Ver \X File

\* A version the registry lists can be fetched, and every file of its page served,
\* whatever failed on the way in (Put and PutStatic come before IngestVersion), as
\* long as the container that stored it on its disk was not replaced.  The URL the
\* rover was given at first still opens it.
ListedIsServed ==
  \A v \in Known \ hist.lost :
    HandleServeRaw(v, signBlobPath(v))
    /\ \A f \in File : <<v, f>> \in tree[era] \/ Get(v)

\* A version that was lost with its container stays lost: no registration and no
\* check brings it back, until the module is deleted, for which every rover must let
\* go of it (IsNewerVersion, IngestVersion, HandleDeleteModule).
LostStaysLost == \A v \in hist.lost : v \in Known /\ ~Get(v)

\* HandleMarketplace.
LatestVersion == IF Known = {} THEN 0 ELSE CHOOSE v \in Known : \A w \in Known : w <= v
UpdateAvailable == LatestVersion # 0 /\ pin # 0 /\ LatestVersion > pin

\* An update that is offered can be fetched, unless it was lost as above.
OffersAreServed == UpdateAvailable => LatestVersion \in hist.lost \/ Get(LatestVersion)

\* After a check that met no failure the newest release is in the registry, unless
\* it is incomplete, cannot be read with the token there is, or the trust root could
\* not be fetched the first time it was needed: lazyVerifier keeps the error
\* for the life of the process.
CheckFindsNewest ==
  hist.checked /\ work = Idle =>
    rows[gh.latest] # None \/ gh.latest \notin gh.whole \/ verifier = "broken"
=============================================================================
