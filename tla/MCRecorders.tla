----------------------------- MODULE MCRecorders -----------------------------
(***************************************************************************)
(* The recording half of the system, for TLC: the privacy registry and     *)
(* small instances of the recorders.  The parts keep their state under     *)
(* mutexes of their own and share no variable, so a behaviour of this      *)
(* module follows one of them, chosen at the start, while the others rest. *)
(***************************************************************************)
EXTENDS PrivacyRegistry, TLC

VARIABLES
    part,                                                   \* the part that takes steps
    life, healthRows, keys, gov, credits, permit, healthRq, healthDrain, bodies, born,
    bufferBytes, overCeiling, reserved, governedRows, governedWr,
    modeV2, eventRows, eventsSeen, seenBlocked, eventsOverflow, pressed,
    l4Minute, l4Conns, l4Cx, l4Sni, l4SniOverflow, l4Ip, flushing, tally,
    fpMinute, fpConns, fpCx, fp, fpIp, fpOverflow, l4Blocks, l4BlockOverflow, flush, fpOwed,
    httpRq, reqs, counters, uniques, uniqueHashCount, attempts, dropped, httpDrain, httpSnap,
    httpOwed,
    vhosts, pathsOverflow, rejected, drainAt, pathsOut, hist,
    phase, corazaApp, events, corazaOverflow, corazaWr, writes,
    nodeMinute, counter, nodeSnap, cur, base, ready, nodeRows, missed, levels

Health == INSTANCE DomainHealth
    WITH Gen <- {"g1", "g2"}, Shard <- {"s1", "s2"}, Slot <- {"a"}, Req <- {"r1", "r2"},
         maxBuffer <- 2, ResidentRecords <- 2, GovEntries <- 2, MaxRows <- 2,
         rows <- healthRows, rq <- healthRq, drain <- healthDrain

Governor == INSTANCE MemGovernor
    WITH Buffer <- {"requestEvents", "coraza", "health"}, Writer <- {"w1", "w2", "w3"},
         Size <- {1, 2}, shareBudget <- 3, maxRows <- 2, rows <- governedRows, wr <- governedWr

RequestEvent == INSTANCE RequestEvents
    WITH threshold <- 3, blockedThreshold <- 2, maxRows <- 7, Pressure <- {0, 700, 850},
         MaxSeen <- 6, rows <- eventRows, seen <- eventsSeen, overflow <- eventsOverflow

L4 == INSTANCE L4Tracks
    WITH Net <- {1, 2}, Host <- {1}, SampledHost <- {1}, SNI <- {"", "a", "b"}, Worker <- {1, 2},
         l4SniMaxKeys <- 1, ipPrefixMapCap <- 1, ipSniMapCap <- 2, maxSnisPerIp <- 1,
         MaxConn <- 3, MaxMinute <- 2, minute <- l4Minute, conns <- l4Conns, cx <- l4Cx

Evidence == INSTANCE L4Evidence
    WITH JA <- {"f", "g"}, IP <- {"a", "b"}, Reason <- {"ip", "abuseipdb", "unknown"},
         Worker <- {1, 2}, fingerprintMaxKeys <- 1, fingerprintIpMaxKeys <- 1,
         l4BlockMaxKeys <- 1, MaxConn <- 3, MaxMinute <- 2,
         minute <- fpMinute, conns <- fpConns, cx <- fpCx, owed <- fpOwed

Http == INSTANCE HttpTracks
    WITH Vhost <- {1, 3}, Client <- {1}, Worker <- {1, 2}, shardCount <- 2, maxBuffer <- 2,
         maxUniqueHashes <- 2, maxAttemptKeys <- 1, MaxReq <- 2,
         rq <- httpRq, drain <- httpDrain, snap <- httpSnap, owed <- httpOwed

Paths == INSTANCE VhostPaths
    WITH Vhost <- {0, 2, 4, 1}, Item <- {"i1", "i2"}, Worker <- {"w1", "w2"},
         l7ShardCount <- 2, trackedVhosts <- 3, MaxReq <- 5,
         overflow <- pathsOverflow, out <- pathsOut

Coraza == INSTANCE CorazaWriter
    WITH MaxGen <- 3, Worker <- {1, 2}, MaxRules <- 2, corazaMaxEvents <- 2, MaxWrites <- 3,
         overflow <- corazaOverflow, wr <- corazaWr

Node == INSTANCE NodeState
    WITH heartbeatMinutes <- 3, maxReady <- 1, MaxMinute <- 4, MaxCount <- 3,
         minute <- nodeMinute, snap <- nodeSnap, rows <- nodeRows

ASSUME RecordersAssumption ==
    /\ Health!DomainHealthAssumption /\ Governor!MemGovernorAssumption
    /\ RequestEvent!RequestEventsAssumption /\ L4!L4TracksAssumption
    /\ Evidence!L4EvidenceAssumption /\ Http!HttpTracksAssumption
    /\ Paths!VhostPathsAssumption /\ Coraza!CorazaWriterAssumption /\ Node!NodeStateAssumption

Part == {"privacy", "health", "governor", "events", "l4", "evidence", "http", "paths", "coraza", "node"}

healthVars == <<life, healthRows, keys, gov, credits, permit, healthRq, healthDrain, bodies, born>>
governorVars == <<bufferBytes, overCeiling, reserved, governedRows, governedWr>>
eventsVars == <<modeV2, eventRows, eventsSeen, seenBlocked, eventsOverflow, pressed>>
l4Vars == <<l4Minute, l4Conns, l4Cx, l4Sni, l4SniOverflow, l4Ip, flushing, tally>>
evidenceVars == <<fpMinute, fpConns, fpCx, fp, fpIp, fpOverflow, l4Blocks, l4BlockOverflow, flush, fpOwed>>
httpVars == <<httpRq, reqs, counters, uniques, uniqueHashCount, attempts, dropped, httpDrain, httpSnap,
              httpOwed>>
pathsVars == <<vhosts, pathsOverflow, rejected, drainAt, pathsOut, hist>>
corazaVars == <<phase, corazaApp, events, corazaOverflow, corazaWr, writes>>
nodeVars == <<nodeMinute, counter, nodeSnap, cur, base, ready, nodeRows, missed, levels>>

recordersVars == <<part, vars, healthVars, governorVars, eventsVars, l4Vars, evidenceVars,
                   httpVars, pathsVars, corazaVars, nodeVars>>

RecordersInit ==
    /\ part \in Part
    /\ Init /\ Health!Init /\ Governor!Init /\ L4!Init /\ Evidence!Init /\ Http!Init
    /\ Paths!Init /\ Coraza!Init /\ Node!Init /\ RequestEvent!Init
    /\ (modeV2 => part = "events") /\ (overCeiling => part = "governor")

(* Every part but p keeps its state. *)
OthersRest(p) ==
    /\ IF p = "privacy" THEN TRUE ELSE UNCHANGED vars
    /\ IF p = "health" THEN TRUE ELSE UNCHANGED healthVars
    /\ IF p = "governor" THEN TRUE ELSE UNCHANGED governorVars
    /\ IF p = "events" THEN TRUE ELSE UNCHANGED eventsVars
    /\ IF p = "l4" THEN TRUE ELSE UNCHANGED l4Vars
    /\ IF p = "evidence" THEN TRUE ELSE UNCHANGED evidenceVars
    /\ IF p = "http" THEN TRUE ELSE UNCHANGED httpVars
    /\ IF p = "paths" THEN TRUE ELSE UNCHANGED pathsVars
    /\ IF p = "coraza" THEN TRUE ELSE UNCHANGED corazaVars
    /\ IF p = "node" THEN TRUE ELSE UNCHANGED nodeVars
    /\ UNCHANGED part

RecordersNext ==
    \/ part = "privacy" /\ Next /\ OthersRest("privacy")
    \/ part = "health" /\ Health!Next /\ OthersRest("health")
    \/ part = "governor" /\ Governor!Next /\ OthersRest("governor")
    \/ part = "events" /\ RequestEvent!Next /\ OthersRest("events")
    \/ part = "l4" /\ L4!Next /\ OthersRest("l4")
    \/ part = "evidence" /\ Evidence!Next /\ OthersRest("evidence")
    \/ part = "http" /\ Http!Next /\ OthersRest("http")
    \/ part = "paths" /\ Paths!Next /\ OthersRest("paths")
    \/ part = "coraza" /\ Coraza!Next /\ OthersRest("coraza")
    \/ part = "node" /\ Node!Next /\ OthersRest("node")

RecordersSpec == RecordersInit /\ [][RecordersNext]_recordersVars

-----------------------------------------------------------------------------
(* No reservation for a health row is kept, lost or returned twice, and no
   permit outlives its encoder (domain_health.go, domain_health_budget.go). *)
ReservationsExact == part = "health" => Health!ReservationsExact

(* A generation retired by Cleanup holds no health row, whichever requests
   were recording at the time (domain_health.go:115). *)
RetiredLeavesNothing == part = "health" => Health!RetiredLeavesNothing

(* The memory governor's tally is the bytes the buffers hold, within their
   share (mem_budget.go:161-196). *)
BytesExact == part = "governor" => Governor!BytesExact

(* Request events are kept whole up to the threshold of their kind, and only
   later ones are sampled (request_event_recorder.go:95-156). *)
SampledPastThreshold == part = "events" => RequestEvent!SampledPastThreshold


(* Every fingerprint and block is live, shipped or counted as overflow of its
   own map and source (app.go:1277, l4_block.go:76). *)
EvidenceAccounted == part = "evidence" => Evidence!EvidenceAccounted

(* Every request is in a live shard, the flush under way, a shipped row or an
   overflow counter (app.go:960, :1092, :1627). *)
RequestsAccounted == part = "http" => Http!RequestsAccounted

(* Every path count survives a drain of its shard (l7_recorders.go:109). *)
PathsAccounted == part = "paths" => Paths!PathsAccounted

(* A reload never leaves the WAF's writer without the running app
   (app.go:672). *)
SuccessorPublished == part = "coraza" => Coraza!SuccessorPublished

=============================================================================
