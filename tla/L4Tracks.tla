------------------------------ MODULE L4Tracks ------------------------------
(***************************************************************************)
(* The layer-4 connection tracks: each accepted connection is counted by   *)
(* SNI and then, under a second mutex, in the four per-IP structures; the  *)
(* flush takes the two in the same order.  A counting map is a bag of its  *)
(* keys.  An address is a <<network, host>> pair: its canonical text, its  *)
(* /24 or /56 prefix being the network.                                    *)
(***************************************************************************)
EXTENDS Integers, FiniteSets, Bags, BagsExt

CONSTANTS
    Net, Host,          \* the two parts of an address
    SampledHost,        \* hosts whose address hash is 0 modulo sampleDenom
    SNI,                \* server names; NoSNI is the empty one
    Worker,             \* connections handled at the same time
    l4SniMaxKeys,       \* 0 switches both tracks off
    ipPrefixMapCap, ipSniMapCap, maxSnisPerIp,
    MaxConn, MaxMinute  \* bounds of the model

NoSNI == ""
L4SniEmptySNI == "__empty__"
L4SniOverflowSNI == "__overflow__"
L4IpOverflowSNI == "__overflow__"
Unparseable == <<>>
IP == Net \X Host
sampleIP(ip) == ip[2] \in SampledHost

(* What the configuration guarantees. *)
L4TracksAssumption ==
    /\ SampledHost \subseteq Host
    /\ {L4SniEmptySNI, L4SniOverflowSNI} \cap SNI = {}
    /\ {l4SniMaxKeys, ipPrefixMapCap, ipSniMapCap, maxSnisPerIp, MaxConn, MaxMinute} \subseteq Nat

VARIABLES
    minute, conns,
    cx,             \* cx[w]: the connection w has counted by SNI, not yet by IP
    l4Sni, l4SniOverflow,
    l4Ip,           \* topk, sampled, prefix, sni and perIp, under l4IpMu
    flushing,       \* the flush is between the two drains
    tally           \* history: counts by outcome

vars == <<minute, conns, cx, l4Sni, l4SniOverflow, l4Ip, flushing, tally>>

Len(bag) == Cardinality(BagToSet(bag))
Idle == [ip |-> Unparseable, sni |-> NoSNI, busy |-> FALSE]

initL4IpState ==
    [topk |-> EmptyBag, sampled |-> {}, prefix |-> EmptyBag, sni |-> EmptyBag, perIp |-> EmptyBag]

Init ==
    /\ minute = 1 /\ conns = 0 /\ cx = [w \in Worker |-> Idle]
    /\ l4Sni = EmptyBag /\ l4SniOverflow = 0
    /\ l4Ip = initL4IpState
    /\ flushing = FALSE
    /\ tally = [sni |-> 0, shipped |-> 0, filtered |-> 0, sentinel |-> 0, prefixLost |-> 0, sniLost |-> 0]

NameOf(sni) == IF sni = NoSNI THEN L4SniEmptySNI ELSE sni

SniFull(k) == k \notin BagToSet(l4Sni) /\ Len(l4Sni) >= l4SniMaxKeys

(* L4Handler.Handle, first half: RecordL4Sni. *)
RecordL4Sni(w, ip, sni) ==
    LET k == <<minute, NameOf(sni)>>
        over == <<minute, L4SniOverflowSNI>>
    IN  /\ ~cx[w].busy /\ conns < MaxConn
        /\ conns' = conns + 1
        /\ cx' = [cx EXCEPT ![w] = [ip |-> ip, sni |-> sni, busy |-> TRUE]]
        /\ IF l4SniMaxKeys = 0 THEN UNCHANGED <<l4Sni, l4SniOverflow, tally>>
           ELSE /\ IF SniFull(k) THEN l4Sni' = BagAdd(l4Sni, over) /\ l4SniOverflow' = l4SniOverflow + 1
                                 ELSE l4Sni' = BagAdd(l4Sni, k) /\ UNCHANGED l4SniOverflow
                /\ tally' = [tally EXCEPT !.sni = @ + 1]
        /\ UNCHANGED <<minute, l4Ip, flushing>>

(* Whether a bounded map counts key k or loses it. *)
Fits(bag, k, cap) == k \in BagToSet(bag) \/ Len(bag) < cap
Counted(bag, k, cap) == IF Fits(bag, k, cap) THEN BagAdd(bag, k) ELSE bag

(* The name an IP's connection is counted under, and the names it has used. *)
Effective(ip, sni) ==
    IF <<ip, sni>> \notin BagToSet(l4Ip.sni) /\ CopiesIn(ip, l4Ip.perIp) >= maxSnisPerIp
    THEN L4IpOverflowSNI ELSE sni

NamesUsed(ip, sni) ==
    IF <<ip, sni>> \notin BagToSet(l4Ip.sni) /\ CopiesIn(ip, l4Ip.perIp) < maxSnisPerIp
    THEN BagAdd(l4Ip.perIp, ip) ELSE l4Ip.perIp

(* L4Handler.Handle, second half: RecordL4Ip. *)
RecordL4Ip(w) ==
    LET ip == cx[w].ip
        sni == NameOf(cx[w].sni)
        key == <<ip, Effective(ip, sni)>>
    IN  /\ cx[w].busy
        /\ cx' = [cx EXCEPT ![w] = Idle]
        /\ IF l4SniMaxKeys = 0 \/ ip = Unparseable THEN UNCHANGED <<l4Ip, tally>>
           ELSE /\ l4Ip' = [topk |-> BagAdd(l4Ip.topk, ip),
                            sampled |-> l4Ip.sampled \union {i \in {ip} : sampleIP(i)},
                            prefix |-> Counted(l4Ip.prefix, ip[1], ipPrefixMapCap),
                            sni |-> Counted(l4Ip.sni, key, ipSniMapCap),
                            perIp |-> NamesUsed(ip, sni)]
                /\ tally' = [tally EXCEPT
                       !.prefixLost = @ + (IF Fits(l4Ip.prefix, ip[1], ipPrefixMapCap) THEN 0 ELSE 1),
                       !.sniLost = @ + (IF Fits(l4Ip.sni, key, ipSniMapCap) THEN 0 ELSE 1)]
        /\ UNCHANGED <<minute, conns, l4Sni, l4SniOverflow, flushing>>

Handle(w) ==
    \/ \E ip \in IP \union {Unparseable}, sni \in SNI : RecordL4Sni(w, ip, sni)
    \/ RecordL4Ip(w)


Kept(snap) == {k \in BagToSet(snap) : CopiesIn(k, snap) > 1 \/ k[2] = L4SniOverflowSNI}

(* drainAndEncode: drainL4SniRows takes the map and drops the rows of one
   connection, except an overflow row. *)
drainL4SniRows ==
    LET of(keys) == BagCardinality([k \in keys |-> l4Sni[k]])
        kept == Kept(l4Sni)
    IN  /\ ~flushing
        /\ flushing' = TRUE
        /\ l4Sni' = EmptyBag
        /\ tally' = [tally EXCEPT !.shipped = @ + of(kept), !.filtered = @ + of(BagToSet(l4Sni) \ kept),
                                  !.sentinel = @ + of({k \in kept : k[2] = L4SniOverflowSNI})]
        /\ UNCHANGED <<minute, conns, cx, l4SniOverflow, l4Ip>>

(* ... then l4IpSnapshot takes all four per-IP structures at once. *)
l4IpSnapshot ==
    /\ flushing
    /\ flushing' = FALSE
    /\ l4Ip' = initL4IpState
    /\ tally' = [tally EXCEPT !.prefixLost = 0, !.sniLost = 0]
    /\ UNCHANGED <<minute, conns, cx, l4Sni, l4SniOverflow>>

Tick ==
    /\ minute < MaxMinute
    /\ minute' = minute + 1
    /\ UNCHANGED <<conns, cx, l4Sni, l4SniOverflow, l4Ip, flushing, tally>>

Next ==
    \/ drainL4SniRows \/ l4IpSnapshot \/ Tick
    \/ \E w \in Worker : Handle(w)

Spec == Init /\ [][Next]_vars

-----------------------------------------------------------------------------
Sentinels == [k \in {x \in BagToSet(l4Sni) : x[2] = L4SniOverflowSNI} |-> l4Sni[k]]

=============================================================================
