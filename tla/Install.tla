-------------------------------- MODULE Install --------------------------------
(***************************************************************************)
(* A module image from its upload to the running unit: staging, the pinned *)
(* signers, the config a module is given and the download of the proxy's   *)
(* images (agent/internal/modules install.go, local.go, config.go and      *)
(* fetcher.go).  Modules has the versions and the steps of a reconciler    *)
(* pass; here a module has one version and a pass is one step.             *)
(*                                                                         *)
(* Each HTTP request is a goroutine of its own.  Nothing locks the trust   *)
(* file, which is read, truncated and written.                             *)
(***************************************************************************)
EXTENDS Naturals, FiniteSets

CONSTANTS
  Id,          \* modules
  MaxHttp,     \* requests at once
  MaxIn,       \* modules staged and desired sets from the proxy
  MaxBoots     \* starts of the rover

VARIABLES
  trust,     \* modules.trust.toml: its pins, or torn
  staging,   \* Manager.staging: stage id, module and signer
  dirs,      \* the stage ids with an image under modules/.staging
  local, store,  \* Manager.localDesired and modules.local.pb
  proxy,     \* Manager.proxyDesired and its cache
  raw,       \* <id>.raw: whose build it is
  cfg,       \* config.toml of each module
  cur,       \* Reconciler.current and currentConfig
  unit,      \* what runs: build and config
  h,         \* the handlers
  hist

vars == <<trust, staging, dirs, local, store, proxy, raw, cfg, cur, unit, h, hist>>

\* Who built and signed an image.  The proxy wants the first one's, by its hash.
Signer == {"a", "b"}
No == "no"
\* config_toml: none, one with the module's own table, one without, a broken one.
Text == {"none", "own", "other", "bad"}
Http == 1 .. MaxHttp
Off == [build |-> No, cfg |-> No]
Idle == [pc |-> "idle", n |-> 0, id |-> No, by |-> No, text |-> No, pins |-> [i \in Id |-> No]]

-----------------------------------------------------------------------------
\* decodeModulesConfig: the module's table in a text.
decodeModulesConfig(text) == IF text = "own" THEN "own" ELSE No

\* desiredModuleConfig: the text's table, or else the one in modules.toml, which has
\* one for every module here.
desiredModuleConfig(text) ==
  IF decodeModulesConfig(text) # No THEN decodeModulesConfig(text) ELSE "file"

\* mergeDesired: local entries win.
Wanted(l, p) == [i \in Id |-> IF l[i] # No THEN l[i] ELSE p[i]]

upsertModule(set, i, text) == [set EXCEPT ![i] = text]
removeModule(set, i) == [set EXCEPT ![i] = No]
isLocalID(i) == local[i] # No

\* ListModules: local entries, then those of the proxy they do not hide.
ListModules ==
  {<<i, "local">> : i \in {j \in Id : isLocalID(j)}}
    \cup {<<i, "proxy">> : i \in {j \in Id : ~isLocalID(j) /\ proxy[j] # No}}

\* Variant: whatever is served is taken.
FetchUnverified(i, want, served) == served

\* Fetch: the bytes served, if their hash is the one wanted; else nothing changes.
Fetch(i, want, served) == IF served = want THEN served ELSE raw[i]

\* A pass over l and p, with the config files f: whatever is not wanted is detached,
\* what is new is fetched (got is what the server sends) and started, what has a new
\* config restarted.  What starts has the files as they are.
Pass(l, p, got, f, hs) ==
  LET want == Wanted(l, p)
      image(i) == IF raw[i] # No \/ want[i] = No THEN raw[i]
                  ELSE IF l[i] # No THEN No ELSE Fetch(i, "a", got)
      same(i) == cur[i] # No /\ cur[i] = want[i]
      starts(i) == want[i] # No /\ ~same(i) /\ image(i) # No
      new(i) == desiredModuleConfig(want[i])
  IN  /\ raw' = [i \in Id |-> image(i)]
      /\ cfg' = [i \in Id |-> IF starts(i) \/ (want[i] # No /\ cur[i] # No /\ ~same(i)) THEN new(i) ELSE f[i]]
      /\ cur' = [i \in Id |-> IF want[i] = No THEN No ELSE IF starts(i) THEN want[i] ELSE cur[i]]
      /\ unit' = [i \in Id |-> CASE want[i] = No -> Off
                                 [] starts(i) -> [build |-> image(i), cfg |-> new(i)]
                                 [] same(i) -> unit[i]
                                 [] OTHER -> Off]
      /\ hist' = [hs EXCEPT !.odd = {i \in @ : ~starts(i)}]

Go(t, at) == h' = [h EXCEPT ![t].pc = at]
\* The handler answers with an error.
Fail(t) == h' = [h EXCEPT ![t] = Idle]

Init ==
  /\ trust = [torn |-> FALSE, pins |-> [i \in Id |-> No]]
  /\ staging = {} /\ dirs = {}
  /\ local = [i \in Id |-> No] /\ store = local /\ proxy = local /\ raw = local
  /\ cfg = local /\ cur = local /\ unit = [i \in Id |-> Off]
  /\ h = [t \in Http |-> Idle]
  /\ hist = [staged |-> 0, pushes |-> 0, boots |-> 1, pinned |-> [i \in Id |-> No],
             overlap |-> FALSE, torn |-> FALSE, shadow |-> {}, odd |-> {}]

\* The handlers are alike: a request takes the first that is free.
\* A bound: after two have met, none comes.
Free(t) == ~hist.overlap /\ h[t].pc = "idle" /\ \A u \in 1 .. t - 1 : h[u].pc # "idle"

\* A request or a push comes while a request is at work.
Overlaps == hist.overlap \/ \E t \in Http : h[t].pc # "idle"

-----------------------------------------------------------------------------
\* StageModule: verified, written, its manifest read.  It touches nothing that a
\* request under way uses: a bound, it comes between them.
StageModule(i, by) ==
  LET n == hist.staged + 1 IN
  /\ n + hist.pushes <= MaxIn /\ ~hist.overlap /\ \A t \in Http : h[t].pc = "idle"
  /\ staging' = staging \cup {[n |-> n, id |-> i, by |-> by]} /\ dirs' = dirs \cup {n}
  /\ hist' = [hist EXCEPT !.staged = n]
  /\ UNCHANGED <<trust, local, store, proxy, raw, cfg, cur, unit, h>>

\* readTrust: no file and an empty one have no pins; a torn one is an error.
readTrust == IF trust.torn THEN {} ELSE {trust.pins}

CheckPinnedSAN(i, by) == \E pins \in readTrust : pins[i] \in {No, by}

\* ConfirmModule: the upload, if its signer is the module's.
ConfirmModule(t, s, text) ==
  /\ Free(t) /\ s \in staging /\ CheckPinnedSAN(s.id, s.by)
  /\ h' = [h EXCEPT ![t] = [Idle EXCEPT !.pc = "move", !.n = s.n, !.id = s.id, !.by = s.by, !.text = text]]
  /\ hist' = [hist EXCEPT !.overlap = Overlaps]
  /\ UNCHANGED <<trust, staging, dirs, local, store, proxy, raw, cfg, cur, unit>>

\* Rename, or a copy; one of two requests for a stage id finds nothing there.
Move(t) ==
  /\ h[t].pc = "move"
  /\ \/ /\ h[t].n \in dirs /\ Go(t, "pin")
        /\ raw' = [raw EXCEPT ![h[t].id] = h[t].by]
        /\ staging' = {s \in staging : s.n # h[t].n} /\ dirs' = dirs \ {h[t].n}
        /\ hist' = [hist EXCEPT !.odd = @ \cup {h[t].id},
             !.shadow = IF proxy[h[t].id] # No /\ h[t].by # "a" THEN @ \cup {h[t].id} ELSE @]
     \/ h[t].n \notin dirs /\ Fail(t) /\ UNCHANGED <<raw, staging, dirs, hist>>
  /\ UNCHANGED <<trust, local, store, proxy, cfg, cur, unit>>

\* PinSAN: read, truncate, write.
PinRead(t) ==
  /\ h[t].pc = "pin"
  /\ \/ \E pins \in readTrust : h' = [h EXCEPT ![t].pc = "open", ![t].pins = pins]
     \/ readTrust = {} /\ Fail(t)
  /\ UNCHANGED <<trust, staging, dirs, local, store, proxy, raw, cfg, cur, unit, hist>>
PinOpen(t) ==
  /\ h[t].pc = "open" /\ Go(t, "write")
  /\ trust' = [torn |-> FALSE, pins |-> [i \in Id |-> No]]
  /\ UNCHANGED <<staging, dirs, local, store, proxy, raw, cfg, cur, unit, hist>>
PinWrite(t) ==
  /\ h[t].pc = "write" /\ Go(t, "config")
  /\ trust' = [torn |-> FALSE, pins |-> [h[t].pins EXCEPT ![h[t].id] = h[t].by]]
  /\ hist' = [hist EXCEPT !.pinned[h[t].id] = h[t].by]
  /\ UNCHANGED <<staging, dirs, local, store, proxy, raw, cfg, cur, unit>>

\* writeLocalConfig: a text without the module's table is an empty config.
writeLocalConfig(i, text) ==
  CASE text = "none" -> cfg[i]
    [] decodeModulesConfig(text) # No -> decodeModulesConfig(text)
    [] OTHER -> "empty"

\* The rest of ConfirmModule.  A broken text ends it, and so does a store that cannot
\* be written; the set in memory has the module then.
Confirmed(t) ==
  LET i == h[t].id
      l == upsertModule(local, i, h[t].text)
      file == [cfg EXCEPT ![i] = writeLocalConfig(i, h[t].text)]
  IN
  /\ h[t].pc = "config" /\ Fail(t)
  /\ \/ h[t].text = "bad" /\ UNCHANGED <<local, store, raw, cfg, cur, unit, hist>>
     \/ /\ h[t].text # "bad" /\ local' = l /\ cfg' = file
        /\ UNCHANGED <<store, raw, cur, unit, hist>>
     \/ h[t].text # "bad" /\ local' = l /\ store' = l /\ Pass(l, proxy, "a", file, hist)
  /\ UNCHANGED <<trust, staging, dirs, proxy>>

\* UninstallModule: the set, a pass, and the image goes.
Uninstall(t, i) ==
  LET l == removeModule(local, i) IN
  /\ Free(t) /\ isLocalID(i)
  /\ local' = l /\ store' = l
  /\ h' = [h EXCEPT ![t] = [Idle EXCEPT !.pc = "remove", !.id = i]]
  /\ Pass(l, proxy, "a", cfg, [hist EXCEPT !.overlap = Overlaps])
  /\ UNCHANGED <<trust, staging, dirs, proxy>>
RemoveImage(t) ==
  /\ h[t].pc = "remove" /\ Fail(t)
  /\ raw' = [raw EXCEPT ![h[t].id] = No]
  /\ hist' = [hist EXCEPT !.shadow = IF cur[h[t].id] # No THEN @ \cup {h[t].id} ELSE @]
  /\ UNCHANGED <<trust, staging, dirs, local, store, proxy, cfg, cur, unit>>

\* handleDesired: got is what the server has; what is cut short is another build.
handleDesired(i, text, got) ==
  LET p == [proxy EXCEPT ![i] = text] IN
  /\ hist.pushes + hist.staged < MaxIn /\ ~hist.overlap /\ p # proxy /\ proxy' = p
  /\ Pass(local, p, got, cfg, [hist EXCEPT !.pushes = @ + 1, !.overlap = Overlaps,
       !.shadow = IF text # No /\ raw[i] \notin {No, "a"} THEN @ \cup {i} ELSE @])
  /\ UNCHANGED <<trust, staging, dirs, local, store, h>>

\* A unit that ends is started again by systemd: from the files as they are.
UnitRestarts(i) ==
  /\ unit[i] # Off
  /\ unit' = [unit EXCEPT ![i] = IF raw[i] = No THEN Off ELSE [build |-> raw[i], cfg |-> cfg[i]]]
  /\ UNCHANGED <<trust, staging, dirs, local, store, proxy, raw, cfg, cur, h, hist>>

\* The power goes and comes back.  New, Run: staging is emptied, the stores are read
\* and a pass starts what has an image.  A write that was under way may be torn.
Boot ==
  LET writing == \E t \in Http : h[t].pc \in {"open", "write"}
      want == Wanted(store, proxy)
      on == {i \in Id : want[i] # No /\ raw[i] # No}
  IN
  /\ hist.boots < MaxBoots
  /\ trust' \in {trust} \cup (IF writing THEN {[trust EXCEPT !.torn = TRUE]} ELSE {})
  /\ staging' = {} /\ dirs' = {} /\ local' = store
  /\ h' = [t \in Http |-> Idle]
  /\ cur' = [i \in Id |-> IF i \in on THEN want[i] ELSE No]
  /\ cfg' = [i \in Id |-> IF i \in on THEN desiredModuleConfig(want[i]) ELSE No]
  /\ unit' = [i \in Id |-> IF i \in on THEN [build |-> raw[i], cfg |-> desiredModuleConfig(want[i])] ELSE Off]
  /\ hist' = [hist EXCEPT !.boots = @ + 1, !.torn = @ \/ writing, !.odd = {}]
  /\ UNCHANGED <<store, proxy, raw>>

Next ==
  \/ \E i \in Id, by \in Signer : StageModule(i, by)
  \/ \E t \in Http :
       \/ \E s \in staging, text \in Text : ConfirmModule(t, s, text)
       \/ Move(t) \/ PinRead(t) \/ PinOpen(t) \/ PinWrite(t)
       \/ Confirmed(t) \/ RemoveImage(t)
       \/ \E i \in Id : Uninstall(t, i)
  \/ \E i \in Id, text \in {No, "own"}, got \in Signer : handleDesired(i, text, got)
  \/ \E i \in Id : UnitRestarts(i)
  \/ Boot

Spec == Init /\ [][Next]_vars

-----------------------------------------------------------------------------
Quiet == \A t \in Http : h[t].pc = "idle"

TypeOK ==
  /\ trust.torn \in BOOLEAN /\ trust.pins \in [Id -> Signer \cup {No}]
  /\ local \in [Id -> Text \cup {No}] /\ store \in [Id -> Text \cup {No}]
  /\ raw \in [Id -> Signer \cup {No}] /\ cfg \in [Id -> {"own", "file", "empty", No}]
  /\ \A i \in Id : unit[i] = Off \/ unit[i].build \in Signer

\* A signer that was pinned stays pinned, and the image a module was installed with
\* is its pinned signer's, unless two requests overlapped or the power went during
\* a write of the trust file (PinSAN, CheckPinnedSAN).
PinsAreKept ==
  (Quiet /\ ~hist.overlap /\ ~hist.torn) =>
    /\ trust.pins = hist.pinned
    /\ \A i \in Id : local[i] # No => raw[i] = trust.pins[i]

\* A module runs with the config its entry resolves to, now and after a restart of
\* its unit, unless a confirmation stopped half-way or was of what already ran, when
\* the file is rewritten and nothing restarts (writeLocalConfig, desiredModuleConfig,
\* applyConfigChange).
ConfigIsResolved ==
  (Quiet /\ ~hist.overlap) => \A i \in Id \ hist.odd : unit[i] # Off =>
    unit[i].cfg = desiredModuleConfig(Wanted(local, proxy)[i]) /\ cfg[i] = unit[i].cfg

\* What ListModules names runs, in the build that is installed, and a module of the
\* proxy in the build its hash is of, unless the image is still missing; a local
\* image of the same version was there first, or took its place and went; or a
\* confirmation stopped half-way or was of what already ran (Fetch, Reconcile,
\* UninstallModule).
ListedRuns ==
  (Quiet /\ ~hist.overlap) => \A e \in ListModules :
    LET i == e[1] IN
    i \in hist.shadow \cup hist.odd \/ raw[i] = No \/
      (unit[i].build = raw[i] /\ (e[2] = "proxy" => unit[i].build = "a"))

\* An image in the staging directory can still be confirmed (StageModule, Move).
StagedIsKnown == dirs = {s.n : s \in staging}
=============================================================================
