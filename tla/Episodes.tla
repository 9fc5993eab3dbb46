------------------------------- MODULE Episodes -------------------------------
(***************************************************************************)
(* What an episode of the agent's recorder contains and what others are    *)
(* told of it (agent/internal/recorder rpc.go, set.go, episode.go and      *)
(* sidecar.go, agent/internal/gateway/episodesapi.go).  Recorder has the   *)
(* goroutines of the video and every step at which the agent may die.      *)
(*                                                                         *)
(* Each subscription has a callback of its own: start, stop, and one per   *)
(* recorded stream.  Recorder.mu is held from the beginning of a stop to   *)
(* its end, episodeWriter.mu for one write.                                *)
(***************************************************************************)
EXTENDS Naturals, Sequences, FiniteSets, SequencesExt

CONSTANTS
  MaxEp,      \* episodes
  MaxMsg,     \* messages in a container
  MaxLives    \* lives of the agent

VARIABLES
  platform,   \* the descriptor: its observations and the altitudes of its actions
  comps,      \* ActiveComponents: per module, its classes in order
  ep,         \* Recorder.ep: the number of the episode, 0 for none
  mu,         \* a stop holds Recorder.mu
  ew,         \* its episodeWriter: channels by topic, what the container holds
  fly,        \* streams whose callback has a message and not yet the lock
  disk,       \* per episode: id, whether <id>.mcap is there, <id>.json
  last,       \* the last event.recorder
  refused,    \* onStart has a refusal to publish, and why
  del,        \* Delete has removed the container of this episode
  hist

vars == <<platform, comps, ep, mu, ew, fly, disk, last, refused, del, hist>>

Ep == 1 .. MaxEp
Module == 1 .. 2
Class == {"arm", "sensor", "gripper"}   \* the last one without a type of its own
Spec1(subject, message) == [subject |-> subject, message |-> message]

-----------------------------------------------------------------------------
(* The recording set. *)

\* An unknown altitude is skipped.
altitudeCommands(alt) ==
  IF alt = "body_twist" THEN <<Spec1(<<"cmd", "drive">>, "DriveCommand")>> ELSE <<>>

Leaf(m, class, leaf) == <<"module", m, class, leaf>>

\* A class that is not known is recorded without a schema.
componentStreams(m, class) ==
  CASE class = "arm" -> <<Spec1(Leaf(m, class, "state"), "ArmState"),
                          Spec1(Leaf(m, class, "cmd"), "ArmCommand")>>
    [] class = "sensor" -> <<Spec1(Leaf(m, class, "state"), "SensorReadings")>>
    [] OTHER -> <<Spec1(Leaf(m, class, "state"), ""), Spec1(Leaf(m, class, "cmd"), "")>>

\* The first to name a subject says what it is.
Add(out, s) == IF \E i \in DOMAIN out : out[i].subject = s.subject THEN out ELSE Append(out, s)

\* Variant: the classes of a module after its first are left out.
ResolveSetFirst(p, cs) ==
  LET of(m) == IF cs[m] = <<>> THEN <<>> ELSE componentStreams(m, cs[m][1])
  IN FoldLeft(Add, <<>>, p.streams \o of(1) \o of(2))

\* ResolveSet: observations, commands of the altitudes, then the modules by id.
ResolveSet(p, cs) ==
  LET of(m) == FlattenSeq([i \in DOMAIN cs[m] |-> componentStreams(m, cs[m][i])])
  IN FoldLeft(Add, <<>>, p.streams \o FlattenSeq([i \in DOMAIN p.altitudes |->
                                          altitudeCommands(p.altitudes[i])]) \o of(1) \o of(2))

-----------------------------------------------------------------------------
(* The container. *)

Known == {"DriveCommand", "ArmState", "ArmCommand", "SensorReadings", "CompressedVideo"}
NoWriter == [chans |-> {}, box |-> <<>>, open |-> FALSE]

\* addChannel: a message without a known type is kept without one.
addChannel(w, s) ==
  IF \E c \in w.chans : c.topic = s.subject THEN w
  ELSE [w EXCEPT !.chans = @ \cup {[topic |-> s.subject, message |-> s.message,
          schema |-> IF s.message \in Known THEN s.message ELSE "",
          id |-> Cardinality(@), count |-> 0]}]

newEpisodeWriter(specs) == FoldLeft(addChannel, [NoWriter EXCEPT !.open = TRUE], specs)

\* write: the message and the count, under one lock; nothing after Close.
write(w, topic) ==
  IF ~w.open \/ ~\E c \in w.chans : c.topic = topic THEN w
  ELSE LET c == CHOOSE d \in w.chans : d.topic = topic IN
       [w EXCEPT !.box = Append(@, topic),
                 !.chans = (@ \ {c}) \cup {[c EXCEPT !.count = @ + 1]}]

Video == Spec1(<<"camera">>, "CompressedVideo")

\* addVideoChannel at the first frame of a camera, then writeVideo.
writeVideo(w) == write(addChannel(w, Video), Video.subject)

-----------------------------------------------------------------------------
(* Events and lists. *)

\* low: the disk is below its limit.
canStart(e, low) == e = 0 /\ ~low

\* publishEventLocked, with the state as it is now.
publishEventLocked(e, reason) ==
  \E low \in BOOLEAN :
    last' = [state |-> IF e # 0 THEN "recording" ELSE "idle", ep |-> e,
             reason |-> IF reason = "" /\ e = 0 /\ low THEN "low disk" ELSE reason]

NoFile == [id |-> <<0, 0>>, mcap |-> FALSE, json |-> "no", streams |-> {}, box |-> <<>>]
Listed == {e \in Ep : disk[e].json # "no"}

\* listSidecars: by id, the greatest first.
Greater(a, b) == a[1] > b[1] \/ (a[1] = b[1] /\ a[2] > b[2])
listSidecars == SetToSortSeq(Listed, LAMBDA d, e : Greater(disk[d].id, disk[e].id))

-----------------------------------------------------------------------------
Init ==
  /\ ep = 0 /\ mu = FALSE /\ ew = NoWriter /\ fly = {}
  /\ platform = [streams |-> <<Spec1(<<"cmd", "drive">>, "Odd")>>,
                 altitudes |-> <<"path", "body_twist">>]
  /\ comps = [m \in Module |-> <<>>]
  /\ disk = [e \in Ep |-> NoFile] /\ last = [state |-> "idle", ep |-> 0, reason |-> ""]
  /\ refused = "" /\ del = 0
  /\ hist = [eps |-> 0, lives |-> 1, kept |-> {}, orphans |-> {}, stale |-> FALSE,
             wanted |-> {}]

\* newEpisodeID: the second, which never runs back here, and two random bytes.
newEpisodeID(sec, salt) == <<sec, salt>>

\* StartEpisode, and the answer of onStart.
StartEpisode(sec, salt) ==
  LET n == hist.eps + 1
      id == newEpisodeID(sec, salt)
  IN
  /\ ~mu /\ refused = "" /\ canStart(ep, FALSE) /\ n \in Ep
  /\ \A e \in Ep : disk[e].id # id /\ disk[e].id[1] <= sec
  /\ ep' = n /\ ew' = newEpisodeWriter(ResolveSet(platform, comps))
  /\ disk' = [disk EXCEPT ![n].id = id]
  /\ hist' = [hist EXCEPT !.eps = n,
       !.wanted = UNION {{<<m, c>> : c \in Range(comps[m])} : m \in Module}]
  /\ publishEventLocked(n, "")
  /\ UNCHANGED <<platform, comps, mu, fly, refused, del>>

\* onStart, refused: the event goes out when the lock has been let go.
Refuse ==
  /\ ~mu /\ refused = "" /\ \E low \in BOOLEAN : ~canStart(ep, low)
  /\ refused' = IF ep # 0 THEN "already recording" ELSE "low disk"
  /\ UNCHANGED <<platform, comps, ep, mu, ew, fly, disk, last, del, hist>>
RefusalSent ==
  /\ ~mu /\ refused # "" /\ publishEventLocked(ep, refused) /\ refused' = ""
  /\ hist' = [hist EXCEPT !.stale = (ep = 0 /\ refused = "already recording")]
  /\ UNCHANGED <<platform, comps, ep, mu, ew, fly, disk, del>>

\* A message on a recorded stream; a callback takes it, and then the writer's lock.
Message(topic) ==
  /\ ep # 0 /\ ~mu /\ topic \notin fly /\ Len(ew.box) + Cardinality(fly) < MaxMsg /\ fly' = fly \cup {topic}
  /\ UNCHANGED <<platform, comps, ep, mu, ew, disk, last, refused, del, hist>>
Callback(topic) ==
  /\ topic \in fly /\ fly' = fly \ {topic} /\ ew' = write(ew, topic)
  /\ UNCHANGED <<platform, comps, ep, mu, disk, last, refused, del, hist>>
Frame ==
  /\ ep # 0 /\ ~mu /\ Len(ew.box) + Cardinality(fly) < MaxMsg /\ ew' = writeVideo(ew)
  /\ UNCHANGED <<platform, comps, ep, mu, fly, disk, last, refused, del, hist>>

\* stopLocked, for onStop or the watcher: the subscriptions go, the callbacks that
\* run go on.
StopBegins ==
  /\ ep # 0 /\ ~mu /\ mu' = TRUE
  /\ UNCHANGED <<platform, comps, ep, ew, fly, disk, last, refused, del, hist>>

\* The counts, as the sidecar has them.
Streams(w) == {[topic |-> c.topic, message |-> c.message, count |-> c.count] : c \in w.chans}

\* finalize: counts and Close under the writer's lock; then rename and sidecar.  A
\* callback that comes later finds its writer closed.
finalize(ok) ==
  /\ mu /\ mu' = FALSE /\ ep' = 0 /\ ew' = NoWriter
  /\ disk' = IF ok THEN [disk EXCEPT ![ep].mcap = TRUE, ![ep].json = "whole",
                                     ![ep].streams = Streams(ew), ![ep].box = ew.box]
             ELSE disk
  /\ publishEventLocked(0, "") /\ fly' = {}
  /\ hist' = [hist EXCEPT !.kept = IF ok THEN @ \cup {ep} ELSE @, !.stale = FALSE]
  /\ UNCHANGED <<platform, comps, refused, del>>

\* watch, idleHeartbeat.
Heartbeat ==
  /\ ~mu /\ publishEventLocked(ep, "") /\ hist' = [hist EXCEPT !.stale = FALSE]
  /\ UNCHANGED <<platform, comps, ep, mu, ew, fly, disk, refused, del>>

\* handleEpisodeDelete, Path: not the one that records.
Delete(e) ==
  /\ ~mu /\ del = 0 /\ e # ep /\ disk[e].mcap
  /\ disk' = [disk EXCEPT ![e].mcap = FALSE] /\ del' = e
  /\ hist' = [hist EXCEPT !.kept = @ \ {e}]
  /\ UNCHANGED <<platform, comps, ep, mu, ew, fly, last, refused>>
DeleteSidecar ==
  /\ del # 0 /\ disk' = [disk EXCEPT ![del].json = "no"] /\ del' = 0
  /\ UNCHANGED <<platform, comps, ep, mu, ew, fly, last, refused, hist>>

\* The agent dies and starts again: RecoverPartials, and Serve's first event.
Restart ==
  /\ hist.lives < MaxLives
  /\ disk' = IF ep = 0 THEN disk
             ELSE [disk EXCEPT ![ep].mcap = TRUE, ![ep].json = "crashed", ![ep].box = ew.box]
  /\ hist' = [hist EXCEPT !.lives = @ + 1, !.stale = FALSE,
                          !.orphans = IF del = 0 THEN @ ELSE @ \cup {del}]
  /\ ep' = 0 /\ mu' = FALSE /\ ew' = NoWriter /\ fly' = {} /\ refused' = "" /\ del' = 0
  /\ publishEventLocked(0, "")
  /\ UNCHANGED <<platform, comps>>

\* A module starts in the middle of things.
ActiveComponents ==
  /\ comps[1] = <<>> /\ comps' = <<<<"sensor">>, <<"gripper", "arm">>>>
  /\ UNCHANGED <<platform, ep, mu, ew, fly, disk, last, refused, del, hist>>

Next ==
  \/ \E sec \in 1 .. hist.eps + 1, salt \in 1 .. 2 : StartEpisode(sec, salt)
  \/ Refuse \/ RefusalSent \/ Frame \/ StopBegins \/ Heartbeat \/ DeleteSidecar \/ Restart
  \/ \E c \in ew.chans : c.topic # Video.subject /\ Message(c.topic)
  \/ \E topic \in fly : Callback(topic)
  \/ \E ok \in BOOLEAN : finalize(ok)
  \/ \E e \in Ep : Delete(e)
  \/ ActiveComponents

Spec == Init /\ [][Next]_vars

-----------------------------------------------------------------------------
TypeOK ==
  /\ ep \in 0 .. MaxEp /\ del \in 0 .. MaxEp /\ refused \in {"", "already recording", "low disk"}
  /\ \A e \in Ep : disk[e].json \in {"no", "whole", "crashed"}
  /\ \A c, d \in ew.chans : c.id = d.id \/ c.topic = d.topic => c = d

\* An episode records the state and the commands of every component that was active
\* when it started, in whatever order the platform and the modules name them, each
\* with the type of its class (ResolveSet, addChannel).
SetIsComplete ==
  ep # 0 => \A w \in hist.wanted : \E c \in ew.chans :
    /\ c.topic = Leaf(w[1], w[2], "state")
    /\ c.schema = CASE w[2] = "arm" -> "ArmState" [] w[2] = "sensor" -> "SensorReadings"
                    [] OTHER -> ""

\* The sidecar says how many messages of each stream are in the container, although
\* the callbacks of the streams run on while the episode is closed (finalize, write).
CountsAreTrue ==
  \A e \in Ep : disk[e].json = "whole" =>
    /\ \A s \in disk[e].streams :
         s.count = Cardinality({k \in DOMAIN disk[e].box : disk[e].box[k] = s.topic})
    /\ Range(disk[e].box) \subseteq {s.topic : s \in disk[e].streams}

\* The last event tells what the recorder does, whoever published it and however it
\* was interleaved with a start or a stop; only the reason of a refusal may be out of
\* date by the time it is sent (publishEventLocked, onStart).
EventIsTrue ==
  /\ last.state = (IF ep = 0 THEN "idle" ELSE "recording") /\ last.ep = ep
  /\ last.reason = "already recording" => ep # 0 \/ hist.stale

\* An episode whose stop was answered well is listed until it is deleted; one that is
\* listed can be fetched, unless it is being deleted or was when the agent died, when
\* its sidecar stays for good (listSidecars, Path, Delete).
ListIsTrue ==
  /\ hist.kept \subseteq Listed
  /\ \A e \in Listed : disk[e].mcap \/ e = del \/ e \in hist.orphans

\* The list has the newest first, as far as the seconds tell (newEpisodeID).
NewestFirst ==
  \A i, j \in DOMAIN listSidecars : i < j =>
    LET d == listSidecars[i] e == listSidecars[j] IN d > e \/ disk[d].id[1] = disk[e].id[1]
=============================================================================
