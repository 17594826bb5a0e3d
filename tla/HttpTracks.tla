----------------------------- MODULE HttpTracks -----------------------------
(***************************************************************************)
(* The HTTP tracks: a request counts its challenge and edge-verify         *)
(* outcomes, then itself, then its client, each under its own mutex, while *)
(* a flush takes the shards one after the other, and then the two attempt  *)
(* maps.  A counting map is a bag of its keys.  The virtual host stands    *)
(* for every field of a counter key, the minute included.                  *)
(***************************************************************************)
EXTENDS Integers, FiniteSets, Bags, BagsExt, FiniteSetsExt

CONSTANTS
    Vhost, Client,
    Worker,             \* requests being recorded at the same time
    shardCount,         \* 16 in the code
    maxBuffer, maxUniqueHashes, maxAttemptKeys,
    MaxReq              \* bound of the model

(* What the configuration guarantees. *)
HttpTracksAssumption ==
    /\ shardCount \in Nat \ {0} /\ Vhost \subseteq Nat \ {0}
    /\ {maxBuffer, maxUniqueHashes, maxAttemptKeys, MaxReq} \subseteq Nat

VARIABLES
    rq,         \* rq[w]: the request w is recording
    reqs,
    counters, uniques, uniqueHashCount,     \* per shard
    attempts,   \* challengeMap and edgeVerifyMap
    dropped,    \* the overflow counters of the four tracks
    drain,      \* the shard or map the flush takes next, 0 between flushes
    snap,       \* what the flush has taken: counter rows and client rows
    owed        \* history: calls made less counts shipped, per track

vars == <<rq, reqs, counters, uniques, uniqueHashCount, attempts, dropped, drain, snap, owed>>

Shard == 1 .. shardCount
Track == {"challenge", "edge"}
NoVhost == 0
Idle == [pc |-> "idle"]
NoRows == [v \in {} |-> {}]
Zero == [challenge |-> 0, edge |-> 0, count |-> 0, unique |-> 0]

(* The steps of a request, less those its outcomes do not call for. *)
At(r, pc) ==
    IF pc = "challenge" /\ r.challenge THEN [r EXCEPT !.pc = pc]
    ELSE IF pc # "count" /\ r.edge THEN [r EXCEPT !.pc = "edge"]
    ELSE IF r.vhost # NoVhost THEN [r EXCEPT !.pc = "count"] ELSE Idle

Init ==
    /\ rq = [w \in Worker |-> Idle] /\ reqs = 0
    /\ counters = [s \in Shard |-> EmptyBag]
    /\ uniques = [s \in Shard |-> NoRows]
    /\ uniqueHashCount = [s \in Shard |-> 0]
    /\ attempts = [t \in Track |-> EmptyBag]
    /\ dropped = Zero
    /\ drain = 0 /\ snap = [counters |-> EmptyBag, uniques |-> NoRows]
    /\ owed = Zero

Len(bag) == Cardinality(BagToSet(bag))
Recorded(t) == [owed EXCEPT ![t] = @ + 1]

(* record: a request is over; what it is known by.  A challenge outcome counts
   unless the request is exempt. *)
Begin(w, challenge, edge, v, c) ==
    /\ rq[w] = Idle /\ reqs < MaxReq
    /\ reqs' = reqs + 1
    /\ rq' = [rq EXCEPT ![w] = At([pc |-> "", challenge |-> challenge, edge |-> edge,
                                   vhost |-> v, client |-> c], "challenge")]
    /\ UNCHANGED <<counters, uniques, uniqueHashCount, attempts, dropped, drain, snap, owed>>

AttemptRefused(t, key) == key \notin BagToSet(attempts[t]) /\ Len(attempts[t]) >= maxAttemptKeys

CountAttempt(w, t) ==
    LET key == rq[w].vhost IN
    /\ rq[w].pc = t
    /\ owed' = Recorded(t)
    /\ IF AttemptRefused(t, key)
       THEN dropped' = [dropped EXCEPT ![t] = @ + 1] /\ UNCHANGED attempts
       ELSE attempts' = [attempts EXCEPT ![t] = BagAdd(@, key)] /\ UNCHANGED dropped
    /\ UNCHANGED <<reqs, counters, uniques, uniqueHashCount, drain, snap>>

RecordChallengeAttempt(w) ==
    /\ CountAttempt(w, "challenge")
    /\ rq' = [rq EXCEPT ![w] = At(@, "edge")]

(* A request without a virtual host ends here. *)
RecordEdgeVerifyAttempt(w) ==
    /\ CountAttempt(w, "edge")
    /\ rq' = [rq EXCEPT ![w] = At(@, "count")]

shardForKey(v) == (v % shardCount) + 1

shardForUnique(v) == ((v + 1) % shardCount) + 1

Record(w) ==
    LET v == rq[w].vhost
        s == shardForKey(v)
        full == v \notin BagToSet(counters[s]) /\ Len(counters[s]) >= maxBuffer \div shardCount
    IN  /\ rq[w].pc = "count"
        /\ IF full THEN dropped' = [dropped EXCEPT !.count = @ + 1] /\ UNCHANGED counters
                   ELSE counters' = [counters EXCEPT ![s] = BagAdd(@, v)] /\ UNCHANGED dropped
        /\ owed' = Recorded("count")
        /\ rq' = [rq EXCEPT ![w].pc = "unique"]
        /\ UNCHANGED <<reqs, uniques, uniqueHashCount, attempts, drain, snap>>

(* The row of virtual host v with client c in it, made if it is missing. *)
With(rows, v, c) == [k \in DOMAIN rows \union {v} |-> (IF k \in DOMAIN rows THEN rows[k] ELSE {})
                                                      \union (IF k = v THEN {c} ELSE {})]

KnownClient(s, v, c) == v \in DOMAIN uniques[s] /\ c \in uniques[s][v]

RecordUnique(w) ==
    LET v == rq[w].vhost
        c == rq[w].client
        s == shardForUnique(v)
        full == uniqueHashCount[s] >= maxUniqueHashes \div shardCount
    IN  /\ rq[w].pc = "unique"
        /\ rq' = [rq EXCEPT ![w] = Idle]
        /\ \/ KnownClient(s, v, c) /\ UNCHANGED <<uniques, uniqueHashCount, dropped>>
           \/ /\ ~KnownClient(s, v, c) /\ full
              /\ dropped' = [dropped EXCEPT !.unique = @ + 1]
              /\ UNCHANGED <<uniques, uniqueHashCount>>
           \/ /\ ~KnownClient(s, v, c) /\ ~full
              /\ uniques' = [uniques EXCEPT ![s] = With(@, v, c)]
              /\ uniqueHashCount' = [uniqueHashCount EXCEPT ![s] = @ + 1]
              /\ UNCHANGED dropped
        /\ UNCHANGED <<reqs, counters, attempts, drain, snap, owed>>

record(w) == RecordChallengeAttempt(w) \/ RecordEdgeVerifyAttempt(w) \/ Record(w) \/ RecordUnique(w)

(* Merging a shard's map into the flush's: a key already there is replaced. *)
Merge(into, rows) == [k \in DOMAIN into \union DOMAIN rows |-> IF k \in DOMAIN rows THEN rows[k] ELSE into[k]]

(* Faulty: taking a shard leaves its hash count. *)
CountKept(n) == n

CountReset(n) == 0

StartFlush ==
    /\ drain = 0
    /\ drain' = 1
    /\ UNCHANGED <<rq, reqs, counters, uniques, uniqueHashCount, attempts, dropped, snap, owed>>

(* drainAndEncode: one shard under its mutex. *)
TakeShard ==
    /\ drain \in Shard
    /\ snap' = [counters |-> Merge(snap.counters, counters[drain]),
                uniques |-> Merge(snap.uniques, uniques[drain])]
    /\ counters' = [counters EXCEPT ![drain] = EmptyBag]
    /\ uniques' = [uniques EXCEPT ![drain] = NoRows]
    /\ uniqueHashCount' = [uniqueHashCount EXCEPT ![drain] = CountReset(@)]
    /\ drain' = drain + 1
    /\ UNCHANGED <<rq, reqs, attempts, dropped, owed>>

Take(t) ==
    /\ attempts' = [attempts EXCEPT ![t] = EmptyBag]
    /\ owed' = [owed EXCEPT ![t] = @ - BagCardinality(attempts[t])]

challengeSnapshot ==
    /\ drain = shardCount + 1
    /\ Take("challenge")
    /\ drain' = drain + 1
    /\ UNCHANGED <<rq, reqs, counters, uniques, uniqueHashCount, dropped, snap>>

(* The last map taken, the rows are encoded into a batch. *)
edgeVerifySnapshot ==
    /\ drain = shardCount + 2
    /\ attempts' = [attempts EXCEPT !.edge = EmptyBag]
    /\ owed' = [owed EXCEPT !.edge = @ - BagCardinality(attempts.edge),
                            !.count = @ - BagCardinality(snap.counters)]
    /\ drain' = 0 /\ snap' = [counters |-> EmptyBag, uniques |-> NoRows]
    /\ UNCHANGED <<rq, reqs, counters, uniques, uniqueHashCount, dropped>>

Next ==
    \/ StartFlush \/ TakeShard \/ challengeSnapshot \/ edgeVerifySnapshot
    \/ \E w \in Worker : record(w)
    \/ \E w \in Worker, v \in Vhost \union {NoVhost}, c \in Client :
          \E o, e \in BOOLEAN : Begin(w, o, e, v, c)

Spec == Init /\ [][Next]_vars

-----------------------------------------------------------------------------
InShards(f) == MapThenSumSet(LAMBDA s : BagCardinality(f[s]), Shard)

(* Every Record call is in a live shard, in the flush under way, in a shipped
   row or counted as overflow: a request racing the shard-by-shard drain, or
   two shards merged into one batch, loses no count (app.go:960, :1627).  The
   same holds for the two attempt maps (app.go:1092).  The number of client
   hashes a shard believes it holds is the number it holds, and a refused
   client leaves no empty row behind to ship (app.go:895). *)
RequestsAccounted ==
    /\ owed.count = InShards(counters) + BagCardinality(snap.counters) + dropped.count
    /\ \A t \in Track : owed[t] = BagCardinality(attempts[t]) + dropped[t]
    /\ \A s \in Shard :
          /\ uniqueHashCount[s] = MapThenSumSet(LAMBDA v : Cardinality(uniques[s][v]), DOMAIN uniques[s])
          /\ \A v \in DOMAIN uniques[s] : uniques[s][v] # {}
=============================================================================
