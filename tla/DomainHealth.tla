----------------------------- MODULE DomainHealth -----------------------------
(***************************************************************************)
(* Domain-health evidence: rows keyed by (minute, vhost, configuration),   *)
(* bounded three times over.  Recording a new row takes a key of its       *)
(* generation, a process-wide credit and governor bytes, one after the     *)
(* other; the credit then travels with the row, through the drain's lease, *)
(* the single encoding permit and the encoded body, until the body is      *)
(* delivered or dropped.  A generation that never started is retired by    *)
(* Cleanup while its handlers may still be recording.                      *)
(***************************************************************************)
EXTENDS Integers, Sequences, FiniteSets, FiniteSetsExt

CONSTANTS
    Gen,                \* app generations
    Shard,              \* shards, selected by the vhost of a key
    Slot,               \* keys that select the same shard
    Req,                \* requests that may record at the same time
    maxBuffer,          \* keys one generation may hold
    ResidentRecords,    \* domainHealthResidentRecords, 8192 in the code
    GovEntries,         \* entries the generation's governor has bytes for
    MaxRows             \* bound of the model: rows inserted in one behaviour

(* What the configuration guarantees. *)
DomainHealthAssumption ==
    /\ maxBuffer \in Nat \ {0} /\ ResidentRecords \in Nat /\ GovEntries \in Nat

VARIABLES
    life,      \* "new", "started", or the progress of Cleanup on a generation
    rows,      \* rows[g]: the keys in g's shard maps
    keys,      \* domainHealthKeys of g
    gov,       \* entries g's governor has reserved bytes for
    credits,   \* domainHealthCredits
    permit,    \* domainHealthEncoding
    rq,        \* rq[r]: what the request is doing in RecordDomainHealth
    drain,     \* drain[g]: the drain (or discard) running in g
    bodies,    \* bodies[g]: leases of encoded bodies, queued or being shipped
    born       \* rows inserted, bounded by MaxRows

vars == <<life, rows, keys, gov, credits, permit, rq, drain, bodies, born>>

Key == Shard \X Slot  \* domainHealthKey: a key is told apart by its shard first
Idle == [pc |-> "idle"]
NoDrain == [pc |-> "idle", todo |-> {}, got |-> {}]

Init ==
    /\ life = [g \in Gen |-> "new"]
    /\ rows = [g \in Gen |-> {}]
    /\ keys = [g \in Gen |-> 0]
    /\ gov = [g \in Gen |-> 0]
    /\ credits = 0 /\ permit = FALSE
    /\ rq = [r \in Req |-> Idle]
    /\ drain = [g \in Gen |-> NoDrain]
    /\ bodies = [g \in Gen |-> <<>>]
    /\ born = 0

-----------------------------------------------------------------------------
(* RecordDomainHealth *)

Retired(g) == life[g] \in {"retiring", "retired"}

(* A request past its check under the lock holds its shard's mutex until it
   has inserted its row or given up. *)
Locked(g, s) == \E r \in Req : rq[r].pc \in {"key", "credit"} /\ rq[r].g = g
                               /\ rq[r].k[1] = s

(* The check before the lock: a retired generation refuses the record, which
   then makes no row.  Refusals only feed a metric. *)
RecordCheck(r, g, k) ==
    /\ rq[r].pc = "idle" /\ ~Retired(g)
    /\ rq' = [rq EXCEPT ![r] = [pc |-> "checked", g |-> g, k |-> k]]
    /\ UNCHANGED <<life, rows, keys, gov, credits, permit, drain, bodies, born>>

(* Faulty: the check before the lock is enough. *)
NeverRecheck(g) == TRUE

(* domainHealthRetired is read again under the shard's lock. *)
StillOpen(g) == ~Retired(g)

(* Under the lock: a retired generation, a full key table or an existing row
   ends the call; a new row has reserved its key. *)
RecordLock(r) ==
    LET g == rq[r].g
        k == rq[r].k
        new == StillOpen(g) /\ k \notin rows[g] /\ keys[g] < maxBuffer
    IN  /\ rq[r].pc = "checked" /\ ~Locked(g, k[1]) /\ born < MaxRows
        /\ rq' = [rq EXCEPT ![r] = IF new THEN [@ EXCEPT !.pc = "key"] ELSE Idle]
        /\ keys' = [keys EXCEPT ![g] = IF new THEN @ + 1 ELSE @]
        /\ UNCHANGED <<life, rows, gov, credits, permit, drain, bodies, born>>

ReturnKey(g) == keys' = [keys EXCEPT ![g] = @ - 1]

reserveDomainHealthCredit(r) ==
    LET g == rq[r].g
    IN  /\ rq[r].pc = "key"
        /\ \/ /\ credits < ResidentRecords
              /\ credits' = credits + 1
              /\ rq' = [rq EXCEPT ![r].pc = "credit"]
              /\ UNCHANGED keys
           \/ /\ credits >= ResidentRecords
              /\ ReturnKey(g)
              /\ rq' = [rq EXCEPT ![r] = Idle]
              /\ UNCHANGED credits
        /\ UNCHANGED <<life, rows, gov, permit, drain, bodies, born>>

(* Faulty: a refused reservation leaves the credit taken. *)
KeepCredit == credits' = credits

ReturnCredit == credits' = credits - 1

(* memGov.tryReserve, which an RSS above its ceiling may refuse at any time. *)
ReserveBytes(r) ==
    LET g == rq[r].g
    IN  /\ rq[r].pc = "credit"
        /\ rq' = [rq EXCEPT ![r] = Idle]
        /\ \/ /\ gov[g] < GovEntries
              /\ gov' = [gov EXCEPT ![g] = @ + 1]
              /\ rows' = [rows EXCEPT ![g] = @ \cup {rq[r].k}]
              /\ born' = born + 1
              /\ UNCHANGED <<keys, credits>>
           \/ /\ ReturnKey(g) /\ ReturnCredit
              /\ UNCHANGED <<gov, rows, born>>
        /\ UNCHANGED <<life, permit, drain, bodies>>

-----------------------------------------------------------------------------
(* The generation's life *)

Start(g) ==
    /\ life[g] = "new"
    /\ life' = [life EXCEPT ![g] = "started"]
    /\ UNCHANGED <<rows, keys, gov, credits, permit, rq, drain, bodies, born>>

(* retireDomainHealth: Cleanup of a generation that never started. *)
Cleanup(g) ==
    /\ life[g] = "new"
    /\ life' = [life EXCEPT ![g] = "retiring"]
    /\ drain' = [drain EXCEPT ![g] = [pc |-> "detach", todo |-> Shard, got |-> {}]]
    /\ UNCHANGED <<rows, keys, gov, credits, permit, rq, bodies, born>>

(* drainAndEncode of a started generation reaches its health rows. *)
BeginDrain(g) ==
    /\ life[g] = "started" /\ drain[g].pc = "idle"
    /\ drain' = [drain EXCEPT ![g] = [pc |-> "detach", todo |-> Shard, got |-> {}]]
    /\ UNCHANGED <<life, rows, keys, gov, credits, permit, rq, bodies, born>>

(* detachDomainHealth takes one shard's map, under that shard's lock. *)
detachDomainHealth(g, s) ==
    LET taken == {k \in rows[g] : k[1] = s}
    IN  /\ drain[g].pc = "detach" /\ s \in drain[g].todo /\ ~Locked(g, s)
        /\ rows' = [rows EXCEPT ![g] = @ \ taken]
        /\ keys' = [keys EXCEPT ![g] = @ - Cardinality(taken)]
        /\ gov' = [gov EXCEPT ![g] = @ - Cardinality(taken)]
        /\ drain' = [drain EXCEPT ![g].todo = @ \ {s}, ![g].got = @ \cup taken]
        /\ UNCHANGED <<life, credits, permit, rq, bodies, born>>

(* lease.release: its credits go back at once.  drop does the same and counts
   the rows in a metric. *)
Release(lease) == credits' = credits - Cardinality(lease)

Detached(g) == drain[g].pc = "detach" /\ drain[g].todo = {}

(* Nothing was detached, ... *)
DrainNothing(g) ==
    /\ Detached(g) /\ drain[g].got = {}
    /\ drain' = [drain EXCEPT ![g] = NoDrain]
    /\ life' = [life EXCEPT ![g] = IF Retired(g) THEN "retired" ELSE @]
    /\ UNCHANGED <<rows, keys, gov, credits, permit, rq, bodies, born>>

(* ... a retirement discards what it detached, ... *)
discardDomainHealth(g) ==
    /\ Detached(g) /\ drain[g].got # {} /\ Retired(g)
    /\ Release(drain[g].got)
    /\ drain' = [drain EXCEPT ![g] = NoDrain]
    /\ life' = [life EXCEPT ![g] = "retired"]
    /\ UNCHANGED <<rows, keys, gov, permit, rq, bodies, born>>

(* ... and a drain wraps it in a lease and asks for the permit.  Busy encoders
   drop their rows rather than wait. *)
prepareDomainHealth(g) ==
    /\ Detached(g) /\ drain[g].got # {} /\ ~Retired(g)
    /\ \/ /\ ~permit
          /\ permit' = TRUE
          /\ drain' = [drain EXCEPT ![g].pc = "prepare"]
          /\ UNCHANGED credits
       \/ /\ permit
          /\ Release(drain[g].got)
          /\ drain' = [drain EXCEPT ![g] = NoDrain]
          /\ UNCHANGED permit
    /\ UNCHANGED <<life, rows, keys, gov, rq, bodies, born>>

finishEncoding == permit' = FALSE

(* The raw frame fits its limit, ... *)
FrameFits(g) ==
    /\ drain[g].pc = "prepare"
    /\ drain' = [drain EXCEPT ![g].pc = "frame"]
    /\ UNCHANGED <<life, rows, keys, gov, credits, permit, rq, bodies, born>>

(* ... or it does not, or encoding the batch around it fails: the lease is
   dropped and the deferred finishEncoding frees the permit. *)
FrameLost(g) ==
    /\ drain[g].pc \in {"prepare", "frame"}
    /\ Release(drain[g].got)
    /\ finishEncoding
    /\ drain' = [drain EXCEPT ![g] = NoDrain]
    /\ UNCHANGED <<life, rows, keys, gov, rq, bodies, born>>

(* The batch is encoded: its caller owns the lease until delivery or drop. *)
EncodeBatch(g) ==
    /\ drain[g].pc = "frame"
    /\ bodies' = [bodies EXCEPT ![g] = Append(@, drain[g].got)]
    /\ finishEncoding
    /\ drain' = [drain EXCEPT ![g] = NoDrain]
    /\ UNCHANGED <<life, rows, keys, gov, credits, rq, born>>

WithoutBody(g, i) ==
    bodies' = [bodies EXCEPT ![g] = SubSeq(@, 1, i - 1) \o SubSeq(@, i + 1, Len(@))]

(* The body's batch is settled, once (Shipper!KeepsLedger): shipped, evicted
   from the queue, without a slot, or given up by its retries. *)
Settle(g, i) ==
    /\ i \in DOMAIN bodies[g]
    /\ Release(bodies[g][i])
    /\ WithoutBody(g, i)
    /\ UNCHANGED <<life, rows, keys, gov, permit, rq, drain, born>>

Next ==
    \/ \E r \in Req :
          \/ \E g \in Gen, k \in Key : RecordCheck(r, g, k)
          \/ RecordLock(r)
          \/ reserveDomainHealthCredit(r)
          \/ ReserveBytes(r)
    \/ \E g \in Gen :
          \/ Start(g) \/ Cleanup(g) \/ BeginDrain(g)
          \/ \E s \in Shard : detachDomainHealth(g, s)
          \/ DrainNothing(g) \/ discardDomainHealth(g) \/ prepareDomainHealth(g)
          \/ FrameFits(g) \/ FrameLost(g) \/ EncodeBatch(g)
          \/ \E i \in 1 .. ResidentRecords : Settle(g, i)

Spec == Init /\ [][Next]_vars

-----------------------------------------------------------------------------
InBodies(g) == SumFunction([i \in DOMAIN bodies[g] |-> Cardinality(bodies[g][i])])
Reserving(g, pcs) == Cardinality({r \in Req : rq[r].pc \in pcs /\ rq[r].g = g})
Resident(g) == Cardinality(rows[g]) + Cardinality(drain[g].got) + InBodies(g)

(* Every reservation is held by exactly what uses it, whichever of the three
   failed half way and on every path out of RecordDomainHealth,
   prepareDomainHealth, the queue or the delivery: the process-wide credits by
   the rows that are live, being inserted, detached or in an undelivered body
   of some generation (domain_health_budget.go:60); a generation's keys and
   governor bytes by its shard maps (domain_health.go:122-139); the permit by
   the one encoder that builds or writes its frame (domain_health_budget.go:151). *)
ReservationsExact ==
    LET encoding == {g \in Gen : drain[g].pc \in {"prepare", "frame"}}
    IN  /\ credits = SumFunction([g \in Gen |-> Resident(g) + Reserving(g, {"credit"})])
        /\ \A g \in Gen : /\ keys[g] = Cardinality(rows[g]) + Reserving(g, {"key", "credit"})
                          /\ gov[g] = Cardinality(rows[g])
        /\ permit = (encoding # {}) /\ Cardinality(encoding) <= 1

(* Once Cleanup has discarded a never-started generation no row is left in
   it: a request that was recording at the time either inserted before its
   shard was detached or saw the retirement (domain_health.go:115). *)
RetiredLeavesNothing ==
    \A g \in Gen : life[g] = "retired" => rows[g] = {} /\ Reserving(g, {"key", "credit"}) = 0
=============================================================================
