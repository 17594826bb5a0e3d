----------------------------- MODULE VhostPaths -----------------------------
(***************************************************************************)
(* perVhostFair: a sharded, first-come recorder of paths per virtual host. *)
(* A rejected request adds to its shard's overflow without the mutex; the  *)
(* drain swaps the overflow out and replaces the map under it.  A sketch   *)
(* is taken to count exactly (it does below k items).                      *)
(***************************************************************************)
EXTENDS Integers, FiniteSets, Bags, BagsExt, FiniteSetsExt

CONSTANTS
    Vhost,              \* virtual host ids
    Item,               \* (path bucket, status bucket) pairs
    Worker,
    l7ShardCount,       \* 16 in the code
    trackedVhosts,
    MaxReq              \* bound of the model

(* What the configuration guarantees. *)
VhostPathsAssumption ==
    /\ Vhost \subseteq Nat /\ l7ShardCount \in Nat \ {0}
    /\ {trackedVhosts, MaxReq} \subseteq Nat

VARIABLES
    vhosts,     \* vhosts[s]: virtual host -> bag of items, per shard
    overflow,   \* overflow[s], atomic
    rejected,   \* rejected[w]: the shard w is about to count an overflow in, -1 for none
    drainAt,    \* [shard, phase] of the drain; shard -1 between drains
    out,        \* what the drain has gathered: rows and totalOverflow
    hist        \* history: requests, and counts shipped

vars == <<vhosts, overflow, rejected, drainAt, out, hist>>

Shard == 0 .. l7ShardCount - 1
NoDrain == [shard |-> -1, phase |-> "none"]

perShardN == Max({1, (trackedVhosts + l7ShardCount - 1) \div l7ShardCount})

newPerVhostFair == [s \in Shard |-> [v \in {} |-> EmptyBag]]

Init ==
    /\ vhosts = newPerVhostFair
    /\ overflow = [s \in Shard |-> 0]
    /\ rejected = [w \in Worker |-> -1]
    /\ drainAt = NoDrain
    /\ out = [rows |-> 0, overflow |-> 0]
    /\ hist = [reqs |-> 0, shipped |-> 0]

Admitted(s, v) == v \in DOMAIN vhosts[s] \/ Cardinality(DOMAIN vhosts[s]) < perShardN

(* record, under the shard's mutex. *)
record(w, v, item) ==
    LET s == v % l7ShardCount IN
    /\ rejected[w] = -1 /\ hist.reqs < MaxReq
    /\ drainAt # [shard |-> s, phase |-> "locked"]
    /\ IF Admitted(s, v)
       THEN /\ vhosts' = [vhosts EXCEPT ![s] = [u \in DOMAIN @ \union {v} |->
                              IF u # v THEN @[u]
                              ELSE BagAdd(IF v \in DOMAIN @ THEN @[v] ELSE EmptyBag, item)]]
            /\ UNCHANGED rejected
       ELSE /\ rejected' = [rejected EXCEPT ![w] = s]
            /\ UNCHANGED vhosts
    /\ hist' = [hist EXCEPT !.reqs = @ + 1]
    /\ UNCHANGED <<overflow, drainAt, out>>

(* record, after the unlock. *)
recordOverflow(w) ==
    /\ rejected[w] # -1
    /\ overflow' = [overflow EXCEPT ![rejected[w]] = @ + 1]
    /\ rejected' = [rejected EXCEPT ![w] = -1]
    /\ UNCHANGED <<vhosts, drainAt, out, hist>>

(* drain locks the next shard and swaps its overflow out, ... *)
drainSwap ==
    LET s == drainAt.shard + 1 IN
    /\ drainAt.phase # "locked" /\ s \in Shard
    /\ drainAt' = [shard |-> s, phase |-> "locked"]
    /\ out' = [out EXCEPT !.overflow = @ + overflow[s]]
    /\ overflow' = [overflow EXCEPT ![s] = 0]
    /\ UNCHANGED <<vhosts, rejected, hist>>

(* Faulty: the reset zeroes the overflow again. *)
ZeroOverflow(s) == [overflow EXCEPT ![s] = 0]

OverflowAtReset(s) == overflow

Rows(s) == MapThenSumSet(LAMBDA v : BagCardinality(vhosts[s][v]), DOMAIN vhosts[s])

(* ... then takes the rows, replaces the map and unlocks. *)
drainReset ==
    LET s == drainAt.shard IN
    /\ drainAt.phase = "locked"
    /\ out' = [out EXCEPT !.rows = @ + Rows(s)]
    /\ vhosts' = [vhosts EXCEPT ![s] = [v \in {} |-> EmptyBag]]
    /\ overflow' = OverflowAtReset(s)
    /\ drainAt' = [drainAt EXCEPT !.phase = "unlocked"]
    /\ UNCHANGED <<rejected, hist>>

drainReturn ==
    /\ drainAt = [shard |-> l7ShardCount - 1, phase |-> "unlocked"]
    /\ drainAt' = NoDrain
    /\ hist' = [hist EXCEPT !.shipped = @ + out.rows + out.overflow]
    /\ out' = [rows |-> 0, overflow |-> 0]
    /\ UNCHANGED <<vhosts, overflow, rejected>>

Next ==
    \/ drainSwap \/ drainReset \/ drainReturn
    \/ \E w \in Worker : recordOverflow(w) \/ \E v \in Vhost, i \in Item : record(w, v, i)

Spec == Init /\ [][Next]_vars

-----------------------------------------------------------------------------
InShards(f(_)) == MapThenSumSet(f, Shard)

(* Every request is in a live sketch, in a live or drained overflow count, in
   a shipped row, or about to be counted: the increment made without the
   mutex survives a drain of its shard at any point (l7_recorders.go:109). *)
PathsAccounted ==
    hist.reqs = InShards(LAMBDA s : Rows(s) + overflow[s]) + out.rows + out.overflow
                + hist.shipped + Cardinality({w \in Worker : rejected[w] # -1})
=============================================================================
