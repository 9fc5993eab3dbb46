-------------------------------- MODULE Tiles --------------------------------
(***************************************************************************)
(* One tile of the map on the rover's own page: the agent's cache on disk  *)
(* (agent/internal/basemap), the request to the proxy that fills it, and   *)
(* the proxy's archive (proxy/internal/basemap).                           *)
(*                                                                         *)
(* Every HTTP request is a goroutine.  Two of them that miss write the     *)
(* same temporary file, so files are inodes: an open one keeps its inode   *)
(* when the name moves on.                                                 *)
(***************************************************************************)
EXTENDS Naturals, FiniteSets

CONSTANTS
  Request,     \* requests for the tile
  MaxEdition,  \* editions of the archive
  MaxLives,    \* lives of the agent
  MaxFaults    \* writes that fail, changes of the link

VARIABLES
  archive,     \* the edition in the bucket; 0: the tile is not in it, or no archive
  plain,       \* the archive's tiles are not gzip-encoded
  link,        \* the proxy answers rpc.basemap_tile
  tmp, pub,    \* the inodes of y.mvt.tmp and y.mvt, 0 for none
  inode,       \* what they hold: the edition, or Cut
  h,           \* the requests: where they are, the tile fetched, the inode open
  got,         \* the answers
  hist         \* lives, faults, inodes made, whether two writers overlapped

vars == <<archive, plain, link, tmp, pub, inode, h, got, hist>>

Cut == MaxEdition + 1      \* truncated, not yet written
Blank == MaxEdition + 2    \* 204
Inode == 1 .. Cardinality(Request)
Idle == [pc |-> "idle", tile |-> 0, fd |-> 0]

Init ==
  /\ archive \in {0, 1} /\ plain \in BOOLEAN /\ link \in BOOLEAN
  /\ tmp = 0 /\ pub = 0 /\ inode = [i \in Inode |-> 0]
  /\ h = [r \in Request |-> Idle] /\ got = [r \in Request |-> 0]
  /\ hist = [lives |-> 1, faults |-> 0, inodes |-> 0, mixed |-> FALSE, asked |-> {}]

Writing(r) == h[r].pc \in {"write", "rename"}
Ends(r, answer) == h' = [h EXCEPT ![r] = Idle] /\ got' = [got EXCEPT ![r] = answer]

-----------------------------------------------------------------------------
\* Cache.Load: what is there is served as gzip, without a look at it; 0: a miss.
Load == IF pub # 0 THEN inode[pub] ELSE 0

ServeHTTP(r) ==
  /\ h[r] = Idle /\ r \notin hist.asked
  /\ hist' = [hist EXCEPT !.asked = @ \cup {r}]
  /\ IF Load # 0 THEN Ends(r, Load)
     ELSE h' = [h EXCEPT ![r].pc = "fetch"] /\ UNCHANGED got
  /\ UNCHANGED <<archive, plain, link, tmp, pub, inode>>

\* An archive without the tile is a tile not found.
Get == archive
handleTileRequest == Get

\* NATSFetcher.Fetch: no link, no responder, no answer in time: offline.  A tile that
\* is not gzip is given on, not kept.
Fetch(r) ==
  /\ h[r].pc = "fetch"
  /\ LET tile == IF link THEN handleTileRequest ELSE 0 IN
     IF tile = 0 THEN Ends(r, Blank)
     ELSE IF plain THEN Ends(r, tile)
     ELSE h' = [h EXCEPT ![r] = [pc |-> "open", tile |-> tile, fd |-> 0]] /\ UNCHANGED got
  /\ UNCHANGED <<archive, plain, link, tmp, pub, inode, hist>>

\* Cache.Store, os.WriteFile: the temporary file is opened and truncated, ...
Open(r) ==
  LET i == IF tmp # 0 THEN tmp ELSE hist.inodes + 1 IN
  /\ h[r].pc = "open" /\ i \in Inode
  /\ tmp' = i /\ inode' = [inode EXCEPT ![i] = Cut]
  /\ h' = [h EXCEPT ![r].pc = "write", ![r].fd = i]
  /\ hist' = [hist EXCEPT !.inodes = IF tmp = 0 THEN @ + 1 ELSE @,
                          !.mixed = @ \/ \E q \in Request \ {r} : Writing(q)]
  /\ UNCHANGED <<archive, plain, link, pub, got>>

\* ... written, or not for want of space, in which case it stays behind, ...
Write(r, ok) ==
  /\ h[r].pc = "write"
  /\ IF ok THEN /\ inode' = [inode EXCEPT ![h[r].fd] = h[r].tile]
                /\ h' = [h EXCEPT ![r].pc = "rename"] /\ UNCHANGED <<got, hist>>
     ELSE /\ hist.faults < MaxFaults /\ hist' = [hist EXCEPT !.faults = @ + 1]
          /\ Ends(r, h[r].tile) /\ UNCHANGED inode
  /\ UNCHANGED <<archive, plain, link, tmp, pub>>

\* ... and renamed: whatever has the temporary name now.
Rename(r) ==
  /\ h[r].pc = "rename" /\ Ends(r, h[r].tile)
  /\ pub' = IF tmp = 0 THEN pub ELSE tmp
  /\ tmp' = 0
  /\ UNCHANGED <<archive, plain, link, inode, hist>>

\* A new archive is uploaded; the bucket is read anew for each tile.
Upload ==
  /\ archive < MaxEdition /\ archive' = archive + 1
  /\ UNCHANGED <<plain, link, tmp, pub, inode, h, got, hist>>

LinkChanges ==
  /\ hist.faults < MaxFaults /\ link' = ~link /\ hist' = [hist EXCEPT !.faults = @ + 1]
  /\ UNCHANGED <<archive, plain, tmp, pub, inode, h, got>>

\* The agent dies; the files stay as they are.
Restart ==
  /\ hist.lives < MaxLives /\ hist' = [hist EXCEPT !.lives = @ + 1]
  /\ h' = [r \in Request |-> Idle]
  /\ UNCHANGED <<archive, plain, link, tmp, pub, inode, got>>

Next ==
  \/ \E r \in Request : \/ ServeHTTP(r) \/ Fetch(r) \/ Open(r) \/ Rename(r)
                        \/ \E ok \in BOOLEAN : Write(r, ok)
  \/ Upload \/ LinkChanges \/ Restart

Spec == Init /\ [][Next]_vars

-----------------------------------------------------------------------------
TypeOK ==
  /\ archive \in 0 .. MaxEdition /\ tmp \in 0 .. hist.inodes /\ pub \in 0 .. hist.inodes
  /\ \A r \in Request : h[r].tile \in 0 .. MaxEdition /\ h[r].fd \in 0 .. hist.inodes

\* The cache never has half a tile, whatever failed or died ("atomic publish"),
\* unless two requests for the tile wrote at the same time: both have the name
\* y.mvt.tmp, and the first to rename publishes what the second has truncated.
CacheIsWhole == ~hist.mixed => (pub # 0 => inode[pub] # Cut) /\ \A r \in Request : got[r] # Cut

\* What is served is an edition the archive had: without the proxy the one that was
\* cached, however old (ServeHTTP).
AnswersMakeSense ==
  \A r \in Request :
    got[r] \in (1 .. archive) \cup {0, Blank} \cup (IF hist.mixed THEN {Cut} ELSE {})
=============================================================================
