-------------------------------- MODULE MCParts --------------------------------
(***************************************************************************)
(* Parts of the system that meet nobody else's variables, for TLC, side by *)
(* side.  A behaviour is one of them: it runs on the registers r1, r2, ... *)
(* for which each part has its own names.                                  *)
(*   between the devices and the bus: Video, Brokers, Descriptor           *)
(*   people: SignIn, Access, LocalSession                                  *)
(*   images and records: Images, Audit, Episodes                           *)
(*   a module: Install, Sandbox, Serving                                   *)
(*   the agent's process: AgentLife, Telemetry                             *)
(*   the proxy: Hub, Artifacts                                             *)
(*   between the proxy and the agent: Tiles, Offers                        *)
(***************************************************************************)
EXTENDS Naturals

CONSTANTS
  MaxFrame, MaxRun, Room,
  Wheel, Joint, MaxMsg, MaxMode, MaxStart,
  People, MaxLogins, MaxRestarts,
  Admin, Users, Rovers, JwtTTL, MaxClock, MaxEdits,
  Browser, LinkTTL, SessionTTL, MaxTokens, MaxBoots,
  Repo, MaxVer, Apply, MaxUploads, MaxOps,
  MaxAsked, MaxFaults,
  Server, Sensor, MaxTicks,
  MaxLives, MaxAlerts,
  Reannounce, Width, MaxPolls, MaxSteps,
  MaxEvents, MaxKey

VARIABLES
  part,
  r1, r2, r3, r4, r5, r6, r7, r8, r9, r10, r11, r12, r13, r14, r15, r16, r17, r18, r19, r20, r21,
  r22

V == INSTANCE Video WITH proc <- r1, stdout <- r2, written <- r3, cut <- r4, pump <- r5,
       out <- r6, closed <- r7, ctx <- r8, sup <- r9, frames <- r10, ended <- r11, au <- r12,
       keyframe <- r13, fan <- r14, given <- r15, run <- r16, lost <- r17, dead <- r18,
       Cap <- Room
B == INSTANCE Brokers WITH stream <- r1, dev <- r2, mode <- r3, events <- r4, known <- r5,
       heard <- r6, changes <- r7, subs <- r8, registered <- r9, made <- r10, queue <- r11,
       hand <- r12, sent <- r13, ids <- r14, relayed <- r15, passed <- r16, doubled <- r17,
       ended <- r18, breach <- r19
S == INSTANCE SignIn WITH users <- r1, signing <- r2, state <- r3, away <- r4, logins <- r5,
       cookie <- r6, restarts <- r7, accepted <- r8, late <- r9, raced <- r10, Person <- People
A == INSTANCE Access WITH clock <- r1, enrolled <- r2, grant <- r3, sock <- r4, edits <- r5,
       lost <- r6, User <- Users, Rover <- Rovers
L == INSTANCE LocalSession WITH clock <- r1, near <- r2, role <- r3, link <- r4, store <- r5,
       cookie <- r6, tokens <- r7, boots <- r8, lost <- r9, late <- r10
I == INSTANCE Images WITH asset <- r1, source <- r2, release <- r3, chk <- r4, running <- r5,
       report <- r6, told <- r7, leaf <- r8, req <- r9, work <- r10, uploads <- r11, ops <- r12,
       behind <- r13, downgraded <- r14, MaxOps <- MaxPolls
X == INSTANCE Sandbox WITH raw <- r1, enabled <- r2, cached <- r3, ondisk <- r4, up <- r5,
       auth <- r6, users <- r7, work <- r8, current <- r9, image <- r10, dropin <- r11,
       proc <- r12, components <- r13, runtime <- r14, wire <- r15, index <- r16, seen <- r17,
       ops <- r18, faults <- r19, was <- r20, half <- r21, narrow <- r22, MaxOps <- MaxAsked
R == INSTANCE Serving WITH pc <- r1, creds <- r2, conn <- r3, health <- r4, stats <- r5,
       stops <- r6, todo <- r7, srv <- r8, sub <- r9, open <- r10, loop <- r11, busy <- r12,
       ticks <- r13, after <- r14, late <- r15
G == INSTANCE AgentLife WITH pc <- r1, at <- r2, up <- r3, defers <- r4, ident <- r5, timer <- r6,
       healthy <- r7, sock <- r8, core <- r9, inbox <- r10, hist <- r11
T == INSTANCE Telemetry WITH mono <- r1, off <- r2, synced <- r3, due <- r4, running <- r5,
       poll <- r6, anchor <- r7, last <- r8, beat <- r9, cpu <- r10, prev <- r11, since <- r12,
       sys <- r13, logs <- r14, hist <- r15, MaxTicks <- MaxPolls
U == INSTANCE Audit WITH emitted <- r1, inbox <- r2, tab <- r3, rows <- r4, hist <- r5,
       Rover <- Rovers
H == INSTANCE Hub WITH at <- r1, up <- r2, rows <- r3, store <- r4, kps <- r5, ident <- r6,
       conn <- r7, rpc <- r8, hist <- r9, Rover <- Rovers
F == INSTANCE Artifacts WITH gh <- r1, era <- r2, raw <- r3, tree <- r4, rows <- r5, mod <- r6,
       box <- r7, pin <- r8, verifier <- r9, work <- r10, hist <- r11, MaxAsked <- MaxOps
M == INSTANCE Tiles WITH archive <- r1, plain <- r2, link <- r3, tmp <- r4, pub <- r5,
       inode <- r6, h <- r7, got <- r8, hist <- r9, Request <- Server, MaxEdition <- MaxTicks
O == INSTANCE Offers WITH link <- r1, turn <- r2, local <- r3, role <- r4, asked <- r5,
       proxyIce <- r6, queue <- r7, busy <- r8, wait <- r9, view <- r10, subs <- r11, hist <- r12,
       Viewer <- Browser, RPCTimeout <- MaxPolls, Gather <- MaxTicks
E == INSTANCE Episodes WITH platform <- r1, comps <- r2, ep <- r3, mu <- r4, ew <- r5, fly <- r6,
       disk <- r7, last <- r8, refused <- r9, del <- r10, hist <- r11, MaxEp <- MaxTicks,
       MaxMsg <- MaxAlerts
N == INSTANCE Install WITH trust <- r1, staging <- r2, dirs <- r3, local <- r4, store <- r5,
       proxy <- r6, raw <- r7, cfg <- r8, cur <- r9, unit <- r10, h <- r11, hist <- r12,
       Id <- People, MaxHttp <- MaxTicks, MaxIn <- MaxAsked
D == INSTANCE Descriptor WITH data <- r1, baked <- r2, edits <- r3, agent <- r4, core <- r5,
       moved <- r6, turned <- r7, MaxEdits <- MaxTicks

\* The registers after the k-th have no use.
Free(k) ==
  /\ (IF k < 6 THEN r6 = 0 ELSE TRUE) /\ (IF k < 7 THEN r7 = 0 ELSE TRUE)
  /\ (IF k < 8 THEN r8 = 0 ELSE TRUE) /\ (IF k < 9 THEN r9 = 0 ELSE TRUE)
  /\ (IF k < 10 THEN r10 = 0 ELSE TRUE) /\ (IF k < 11 THEN r11 = 0 ELSE TRUE)
  /\ (IF k < 12 THEN r12 = 0 ELSE TRUE) /\ (IF k < 13 THEN r13 = 0 ELSE TRUE)
  /\ (IF k < 14 THEN r14 = 0 ELSE TRUE) /\ (IF k < 15 THEN r15 = 0 ELSE TRUE)
  /\ (IF k < 16 THEN r16 = 0 ELSE TRUE) /\ (IF k < 17 THEN r17 = 0 ELSE TRUE)
  /\ (IF k < 18 THEN r18 = 0 ELSE TRUE) /\ (IF k < 19 THEN r19 = 0 ELSE TRUE)
  /\ (IF k < 20 THEN r20 = 0 ELSE TRUE) /\ (IF k < 21 THEN r21 = 0 ELSE TRUE)
  /\ (IF k < 22 THEN r22 = 0 ELSE TRUE)

Init ==
  \/ part = "video" /\ V!Init /\ Free(18)
  \/ part = "brokers" /\ B!Init /\ Free(19)
  \/ part = "signin" /\ S!Init /\ Free(10)
  \/ part = "access" /\ A!Init /\ Free(6)
  \/ part = "sessions" /\ L!Init /\ Free(10)
  \/ part = "images" /\ I!Init /\ Free(14)
  \/ part = "sandbox" /\ X!Init /\ Free(22)
  \/ part = "serving" /\ R!Init /\ Free(15)
  \/ part = "agent" /\ G!Init /\ Free(11)
  \/ part = "telemetry" /\ T!Init /\ Free(15)
  \/ part = "audit" /\ U!Init /\ Free(5)
  \/ part = "hub" /\ H!Init /\ Free(9)
  \/ part = "artifacts" /\ F!Init /\ Free(11)
  \/ part = "tiles" /\ M!Init /\ Free(9)
  \/ part = "offers" /\ O!Init /\ Free(12)
  \/ part = "episodes" /\ E!Init /\ Free(11)
  \/ part = "install" /\ N!Init /\ Free(12)
  \/ part = "descriptor" /\ D!Init /\ Free(7)

Next ==
  \/ part = "video" /\ V!Next /\ UNCHANGED <<part, r19, r20, r21, r22>>
  \/ part = "brokers" /\ B!Next /\ UNCHANGED <<part, r20, r21, r22>>
  \/ part = "signin" /\ S!Next /\ UNCHANGED <<part, r11, r12, r13, r14, r15, r16, r17, r18, r19,
       r20, r21, r22>>
  \/ part = "access" /\ A!Next /\ UNCHANGED <<part, r7, r8, r9, r10, r11, r12, r13, r14, r15, r16,
       r17, r18, r19, r20, r21, r22>>
  \/ part = "sessions" /\ L!Next /\ UNCHANGED <<part, r11, r12, r13, r14, r15, r16, r17, r18, r19,
       r20, r21, r22>>
  \/ part = "images" /\ I!Next /\ UNCHANGED <<part, r15, r16, r17, r18, r19, r20, r21, r22>>
  \/ part = "sandbox" /\ X!Next /\ UNCHANGED <<part>>
  \/ part = "serving" /\ R!Next /\ UNCHANGED <<part, r16, r17, r18, r19, r20, r21, r22>>
  \/ part = "agent" /\ G!Next /\ UNCHANGED <<part, r12, r13, r14, r15, r16, r17, r18, r19, r20,
       r21, r22>>
  \/ part = "telemetry" /\ T!Next /\ UNCHANGED <<part, r16, r17, r18, r19, r20, r21, r22>>
  \/ part = "audit" /\ U!Next /\ UNCHANGED <<part, r6, r7, r8, r9, r10, r11, r12, r13, r14, r15,
       r16, r17, r18, r19, r20, r21, r22>>
  \/ part = "hub" /\ H!Next /\ UNCHANGED <<part, r10, r11, r12, r13, r14, r15, r16, r17, r18, r19,
       r20, r21, r22>>
  \/ part = "artifacts" /\ F!Next /\ UNCHANGED <<part, r12, r13, r14, r15, r16, r17, r18, r19,
       r20, r21, r22>>
  \/ part = "tiles" /\ M!Next /\ UNCHANGED <<part, r10, r11, r12, r13, r14, r15, r16, r17, r18,
       r19, r20, r21, r22>>
  \/ part = "offers" /\ O!Next /\ UNCHANGED <<part, r13, r14, r15, r16, r17, r18, r19, r20, r21,
       r22>>
  \/ part = "episodes" /\ E!Next /\ UNCHANGED <<part, r12, r13, r14, r15, r16, r17, r18, r19, r20,
       r21, r22>>
  \/ part = "install" /\ N!Next /\ UNCHANGED <<part, r13, r14, r15, r16, r17, r18, r19, r20, r21,
       r22>>
  \/ part = "descriptor" /\ D!Next /\ UNCHANGED <<part, r8, r9, r10, r11, r12, r13, r14, r15, r16,
       r17, r18, r19, r20, r21, r22>>

Spec == Init /\ [][Next]_<<part, r1, r2, r3, r4, r5, r6, r7, r8, r9, r10, r11, r12, r13, r14, r15,
          r16, r17, r18, r19, r20, r21, r22>>

-----------------------------------------------------------------------------
\* fanout glues two frames together only over a dropped delimiter, and its keyframe
\* flag is that of the access unit it comes with.
FramesAreWhole == part = "video" => V!TypeOK /\ V!OneFramePerUnit /\ V!KeyframeFlag

\* No module moves a wheel over the servo bus (the deny list of servo_broker.go).  A
\* command or an input is passed on outside its mode only while the event that ended
\* it was on its way (ensureModeSub, relayCmd), and at most once outside a restart
\* of its stream (start, stop).  The descriptor behind the deny list is the same robot
\* to the agent and to the core where both take it, names servos one to one, keeps
\* the platform's servos from modules whatever the agent fell back to, and lets the
\* drive turn wheels only (Load, parse, loadDenyIDs, handleSync, writeCommands).
BrokersHold ==
  /\ part = "brokers" => B!TypeOK /\ B!WheelsAreTheCores /\ B!GateHolds /\ B!PassedOnce
  /\ part = "descriptor" =>
       D!TypeOK /\ D!SameRobot /\ D!NamesInvert /\ D!OwnersAreKept /\ D!WheelsAreDriven /\ D!ParsersAgree

\* The first person to sign in becomes the admin, alone unless two first sign-ins
\* overlapped, and a late sign-in is refused (Callback, UpsertFromWorkOS).  A right
\* that was taken away ends with the session JWT at the latest, and a socket publishes
\* where its roles say and nowhere else (Handle, MintSessionUserJWT).  A magic link
\* lets in nobody whose role ended before it was made, and a browser that was let in
\* stays in until its session is over or the agent starts again (sessionStore).
PeopleHold ==
  /\ part = "signin" => S!TypeOK /\ S!OneAdmin /\ S!CookieIsKnown /\ S!AcceptedInOrder
  /\ part = "access" => A!TypeOK /\ A!RightsEnd /\ A!PublishesByRole
  /\ part = "sessions" => L!TypeOK /\ L!LinksEnd /\ L!StaysIn

\* The newest release is the one offered, taking the offer is an upgrade, the history
\* of applies is true and the table follows the rover's reports (LatestRelease,
\* HandleReleasesFleet, newApplyImageHandler, onImage), each with its named exceptions.
ImagesHold ==
  part = "images" =>
    I!TypeOK /\ I!LatestIsNewest /\ I!OffersUpgrade /\ I!HistoryIsTrue /\ I!TableFollows

\* A signer that was pinned stays pinned, a module runs with the config its entry
\* resolves to, and what is listed runs in the build that was confirmed or that the
\* proxy's hash is of, unless requests overlapped, the power went during a write, or
\* one of the exceptions named in Install (PinSAN, desiredModuleConfig, Fetch,
\* UninstallModule).
InstallHolds ==
  part = "install" =>
    N!TypeOK /\ N!PinsAreKept /\ N!ConfigIsResolved /\ N!ListedRuns /\ N!StagedIsKnown

\* A module that runs has the rights its manifest declares, and none outside its own
\* subjects; the devices and rates of its version; the components the recorder is
\* told of; and the relay of the proxy follows it (ManifestAuthPermissions,
\* ensureModuleCreds, writeHardwareDropin, onModuleDetached, learn), each with the
\* exceptions named in Sandbox.  A module that is told to stop stops every server that
\* was registered in time, lets none of them take a command after that, and drains
\* its connection last (Run, runStops, register).
ModuleHolds ==
  /\ part = "sandbox" =>
       /\ X!TypeOK /\ X!HasItsRights /\ X!WithinSandbox /\ X!DevicesDeclared /\ X!RateIsDeclared
       /\ X!ComponentsAreActive /\ X!RelayFollows
  /\ part = "serving" =>
       R!TypeOK /\ R!ServersAreStopped /\ R!NoCommandAfterStop /\ R!StopsBeforeDrain

\* An agent that declares its boot healthy can be given another image; it starts
\* nothing before what it needs, keeps the alerts it gets until it closes, and lets
\* the core in through a relay of its own (main, natsunix.Start, SignalHealthy).  An
\* anchor marked synced gives the right time and is no older than its cadence, the
\* CPU share is of the time since the last sample, and every log record is on stderr
\* and sent or counted (clockanchor.Run, CPUPercent, MultiHandler.Handle).
AgentHolds ==
  /\ part = "agent" =>
       G!TypeOK /\ G!HealthyIsReplaceable /\ G!AlertsAreKept /\ G!UsesAreUp /\ G!CoreHasARelay
  /\ part = "telemetry" =>
       /\ T!TypeOK /\ T!AnchorIsRight /\ T!AnchorIsFresh /\ T!CpuIsSinceSample
       /\ T!MemoryMakesSense /\ T!LogsAreCounted

\* The two copies of the audit trail say what was published, once; the deletion of a
\* rover is in it; and what is read back is the newest of what the reader may see
\* (Insert, kindAndPayload, newDeleteRoverHandler, newAuditListHandler).  An episode
\* subscribes to every stream of the platform and of each active module, its sidecar
\* counts what its container holds, the last recorder event and the list say what is
\* there, newest first (ResolveSet, finalize, publishEventLocked, listSidecars), each
\* with the exceptions named in Episodes.
RecordsHold ==
  /\ part = "audit" => U!TypeOK /\ U!TrailIsTrue /\ U!DeletionIsRecorded /\ U!ListIsNewest
  /\ part = "episodes" =>
       /\ E!TypeOK /\ E!SetIsComplete /\ E!CountsAreTrue /\ E!EventIsTrue /\ E!ListIsTrue
       /\ E!NewestFirst

\* Whatever the order of the proxy's start, of enrolments, deletions and leaf
\* connections, a rover on the hub is heard, gets its commands and is answered, and
\* accounts stay apart (main, restoreRoverAccounts, MintAccountJWT, EnsureAll), each
\* with the exceptions named in Hub.
HubHolds ==
  part = "hub" =>
    /\ H!TypeOK /\ H!RoversAreHeard /\ H!CommandsGetThrough /\ H!RequestsAreAnswered
    /\ H!AccountsAreApart

\* What the registry lists can be fetched, whatever was deployed in between; the check
\* for updates finds the newest release it may read (ingestRelease, PutRaw, GetRaw,
\* HandleCheckUpdates), each with the exceptions named in Artifacts.
ArtifactsHold ==
  part = "artifacts" =>
    F!TypeOK /\ F!ListedIsServed /\ F!LostStaysLost /\ F!OffersAreServed /\ F!CheckFindsNewest

\* What the agent caches of the map is whole, unless two requests for one tile wrote it
\* at once, and a tile that is not there is never an error (diskCache.Store, ServeHTTP).
\* A camera's answer has a subscriber behind it, comes in time when the offers in front
\* leave the time, and carries the servers the agent was told of (postOffer,
\* handleOfferRPC, RequestFromProxy).
RemoteHolds ==
  /\ part = "tiles" => M!TypeOK /\ M!CacheIsWhole /\ M!AnswersMakeSense
  /\ part = "offers" =>
       O!TypeOK /\ O!AnswersHaveSubscribers /\ O!InTime /\ O!ServersAreKnown

=============================================================================
