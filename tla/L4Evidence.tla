----------------------------- MODULE L4Evidence -----------------------------
(***************************************************************************)
(* Fingerprints and block decisions of layer-4 connections.  A fingerprint *)
(* is counted in two maps, the mutex released between them; a block goes   *)
(* into one map, or, past its cap, into the overflow scalar of its source, *)
(* which the flush turns into a sentinel row.  A counting map is a bag.    *)
(***************************************************************************)
EXTENDS Integers, FiniteSets, Bags, BagsExt

CONSTANTS
    JA, IP,             \* fingerprints (ja3 and ja4 together), client addresses
    Reason,             \* what a handler may be configured with
    Worker,
    fingerprintMaxKeys, fingerprintIpMaxKeys, l4BlockMaxKeys,
    MaxConn, MaxMinute  \* bounds of the model

None == ""
validL4BlockReason(reason) == reason \in {"ip", "sni", "ja3", "ja4", "abuseipdb"}
Source == {"reputation", "list"}

(* What the configuration guarantees. *)
L4EvidenceAssumption ==
    /\ None \notin JA \union IP /\ MaxMinute \in Nat \ {0}
    /\ {fingerprintMaxKeys, fingerprintIpMaxKeys, l4BlockMaxKeys, MaxConn} \subseteq Nat

VARIABLES
    minute, conns,
    cx,             \* cx[w]: the (minute, ja4, ip) w has still to join, <<>> for none
    fp, fpIp,       \* fpMap and fpIpMap
    fpOverflow,     \* per map
    l4Blocks, l4BlockOverflow,      \* the map and the scalar of each source
    flush,          \* the map the flush takes next, "none" between flushes
    owed            \* history: calls made less counts shipped, per map and source

vars == <<minute, conns, cx, fp, fpIp, fpOverflow, l4Blocks, l4BlockOverflow, flush, owed>>

Len(bag) == Cardinality(BagToSet(bag))
Refused(bag, k, cap) == k \notin BagToSet(bag) /\ Len(bag) >= cap
NoBlocks == [s \in Source |-> 0]

Init ==
    /\ minute = 1 /\ conns = 0 /\ cx = [w \in Worker |-> <<>>]
    /\ fp = EmptyBag /\ fpIp = EmptyBag /\ fpOverflow = [traffic |-> 0, join |-> 0]
    /\ l4Blocks = EmptyBag /\ l4BlockOverflow = NoBlocks
    /\ flush = "none"
    /\ owed = [traffic |-> 0, join |-> 0, reputation |-> 0, list |-> 0]

(* RecordFingerprint, the traffic map.  A connection without a fingerprint is
   not recorded at all; without an address it has no join row. *)
RecordFingerprint(w, ja, ip) ==
    LET k == <<minute, ja>> IN
    /\ cx[w] = <<>> /\ conns < MaxConn /\ ja # None
    /\ conns' = conns + 1
    /\ IF fingerprintMaxKeys = 0 THEN UNCHANGED <<fp, fpOverflow, owed>>
       ELSE /\ owed' = [owed EXCEPT !.traffic = @ + 1]
            /\ IF Refused(fp, k, fingerprintMaxKeys)
               THEN fpOverflow' = [fpOverflow EXCEPT !.traffic = @ + 1] /\ UNCHANGED fp
               ELSE fp' = BagAdd(fp, k) /\ UNCHANGED fpOverflow
    /\ cx' = [cx EXCEPT ![w] = IF fingerprintIpMaxKeys = 0 \/ ip = None THEN <<>> ELSE <<minute, ja, ip>>]
    /\ UNCHANGED <<minute, fpIp, l4Blocks, l4BlockOverflow, flush>>

(* RecordFingerprint, the join map, stamped with the minute read at entry. *)
RecordJoin(w) ==
    /\ cx[w] # <<>>
    /\ cx' = [cx EXCEPT ![w] = <<>>]
    /\ owed' = [owed EXCEPT !.join = @ + 1]
    /\ IF Refused(fpIp, cx[w], fingerprintIpMaxKeys)
       THEN fpOverflow' = [fpOverflow EXCEPT !.join = @ + 1] /\ UNCHANGED fpIp
       ELSE fpIp' = BagAdd(fpIp, cx[w]) /\ UNCHANGED fpOverflow
    /\ UNCHANGED <<minute, conns, fp, l4Blocks, l4BlockOverflow, flush>>

(* Faulty: all overflow is counted against the lists. *)
AllLists(reason) == "list"

SourceOf(reason) == IF reason = "abuseipdb" THEN "reputation" ELSE "list"

(* L4BlockHandler.Handle: recordL4BlockAt. *)
recordL4BlockAt(ip, reason) ==
    LET k == <<minute, ip, reason>> IN
    /\ conns < MaxConn /\ ip # None /\ validL4BlockReason(reason)
    /\ conns' = conns + 1
    /\ owed' = [owed EXCEPT ![IF reason = "abuseipdb" THEN "reputation" ELSE "list"] = @ + 1]
    /\ IF Refused(l4Blocks, k, l4BlockMaxKeys)
       THEN l4BlockOverflow' = [l4BlockOverflow EXCEPT ![SourceOf(reason)] = @ + 1] /\ UNCHANGED l4Blocks
       ELSE l4Blocks' = BagAdd(l4Blocks, k) /\ UNCHANGED l4BlockOverflow
    /\ UNCHANGED <<minute, cx, fp, fpIp, fpOverflow, flush>>

(* drainAndEncode takes fpMap, ... *)
fingerprintSnapshot ==
    /\ flush = "none"
    /\ flush' = "join"
    /\ owed' = [owed EXCEPT !.traffic = @ - BagCardinality(fp)]
    /\ fp' = EmptyBag
    /\ UNCHANGED <<minute, conns, cx, fpIp, fpOverflow, l4Blocks, l4BlockOverflow>>

(* ... then fpIpMap, ... *)
fingerprintIpSnapshot ==
    /\ flush = "join"
    /\ flush' = "blocks"
    /\ owed' = [owed EXCEPT !.join = @ - BagCardinality(fpIp)]
    /\ fpIp' = EmptyBag
    /\ UNCHANGED <<minute, conns, cx, fp, fpOverflow, l4Blocks, l4BlockOverflow>>

(* The rows of one source, and its sentinel. *)
RowsOf(s) == BagCardinality([k \in {x \in BagToSet(l4Blocks) : SourceOf(x[3]) = s} |-> l4Blocks[k]])

(* ... then the blocks, with the overflow of each source as a row of its own. *)
l4BlockSnapshot ==
    /\ flush = "blocks"
    /\ flush' = "none"
    /\ owed' = [owed EXCEPT !.reputation = @ - RowsOf("reputation") - l4BlockOverflow.reputation,
                            !.list = @ - RowsOf("list") - l4BlockOverflow.list]
    /\ l4Blocks' = EmptyBag /\ l4BlockOverflow' = NoBlocks
    /\ UNCHANGED <<minute, conns, cx, fp, fpIp, fpOverflow>>

Tick ==
    /\ minute < MaxMinute
    /\ minute' = minute + 1
    /\ UNCHANGED <<conns, cx, fp, fpIp, fpOverflow, l4Blocks, l4BlockOverflow, flush, owed>>

Handle(w) == RecordJoin(w) \/ \E ja \in JA, ip \in IP \union {None} : RecordFingerprint(w, ja, ip)

Next ==
    \/ fingerprintSnapshot \/ fingerprintIpSnapshot \/ l4BlockSnapshot \/ Tick
    \/ \E w \in Worker : Handle(w)
    \/ \E ip \in IP, r \in Reason : recordL4BlockAt(ip, r)

Spec == Init /\ [][Next]_vars

-----------------------------------------------------------------------------
(* Every fingerprint recorded ships, down to a single observation, or is
   counted as overflow, in each of the two maps, whichever of them a flush
   has taken between the two halves of a record (app.go:1277, :1447).  Every
   block reaches the rows of its own source, its sentinel included: reputation
   blocks and list blocks are never mixed (l4_block.go:76, :112). *)
EvidenceAccounted ==
    /\ owed.traffic = BagCardinality(fp) + fpOverflow.traffic
    /\ owed.join = BagCardinality(fpIp) + fpOverflow.join
    /\ owed.reputation = RowsOf("reputation") + l4BlockOverflow.reputation
    /\ owed.list = RowsOf("list") + l4BlockOverflow.list
=============================================================================
