--------------------------- MODULE LatencyBalancer ---------------------------
(***************************************************************************)
(* The apx_latency policy: round trips of proxied requests are folded into *)
(* a decaying average per dial address, kept across reloads, and the       *)
(* selector takes the available upstream of the lowest average times load. *)
(* Time is counted in half-lives and an entry holds its age instead of a   *)
(* time stamp.  Averages are rounded up to whole units of latency; scores  *)
(* are compared exactly.                                                   *)
(***************************************************************************)
EXTENDS Integers, FiniteSets, Sequences

CONSTANTS
    Dial, Request,
    Pools,              \* the upstream pools of the configurations
    Latency,            \* round-trip times
    lbErrorPenalty,     \* the floor of a 502, 503 or 504
    lbEvictAfter,       \* 20 half-lives in the code
    MaxAge,             \* ages saturate here
    MaxSilence          \* half-lives that pass with no sample at all

(* What the configuration guarantees. *)
LatencyBalancerAssumption ==
    /\ Latency \subseteq Nat \ {0}
    /\ {lbErrorPenalty, lbEvictAfter, MaxAge, MaxSilence} \subseteq Nat
    /\ lbEvictAfter < MaxAge

VARIABLES
    lbEntries,  \* dial -> [ewma, age]
    pool, up,   \* the current pool, and the upstreams Caddy deems available
    at,         \* the upstream each request in flight is at, or "none"
    picked      \* the last selection

vars == <<lbEntries, pool, up, at, picked>>

Init ==
    /\ lbEntries = <<>>
    /\ pool \in Pools /\ up = Dial
    /\ at = [r \in Request |-> "none"] /\ picked = "none"

(* Faulty: an idle upstream keeps its score. *)
NoDecay(d) == [num |-> IF d \in DOMAIN lbEntries THEN lbEntries[d].ewma ELSE 0, den |-> 1]

(* lbScore and lbDecayed: 0 for an upstream never sampled, else the average
   halved once for every half-life. *)
lbScore(d) ==
    IF d \in DOMAIN lbEntries THEN [num |-> lbEntries[d].ewma, den |-> 2^lbEntries[d].age]
    ELSE [num |-> 0, den |-> 1]

NumRequests(d) == Cardinality({r \in Request : at[r] = d})

Lower(d, e) ==
    lbScore(d).num * (NumRequests(d) + 1) * lbScore(e).den < lbScore(e).num * (NumRequests(e) + 1) * lbScore(d).den

(* The first of the available upstreams that none undercuts, if any. *)
lbSelectLowest ==
    LET open == {i \in DOMAIN pool : pool[i] \in up}
    IN  {pool[i] : i \in {j \in open : /\ \A k \in open : ~Lower(pool[k], pool[j])
                                       /\ \A k \in open : k < j => Lower(pool[j], pool[k])}}

Select(r) ==
    /\ at[r] = "none"
    /\ \E d \in lbSelectLowest : at' = [at EXCEPT ![r] = d] /\ picked' = d
    /\ UNCHANGED <<lbEntries, pool, up>>

(* lbEvictLocked: the entries that stay. *)
lbEvictLocked == {d \in DOMAIN lbEntries : lbEntries[d].age <= lbEvictAfter}

Ceil(n, m) == (n + m - 1) \div m

(* A first sample is taken as it is and sweeps the registry; a later one is
   folded with weight 1/5 into what the score has decayed to. *)
lbRecord(d, t) ==
    IF d \notin DOMAIN lbEntries
    THEN [e \in lbEvictLocked \union {d} |-> IF e = d THEN [ewma |-> t, age |-> 0] ELSE lbEntries[e]]
    ELSE LET old == lbScore(d) IN
         [lbEntries EXCEPT ![d] = [ewma |-> Ceil(t * old.den + 4 * old.num, 5 * old.den), age |-> 0]]

Penalised(t, error) == IF error /\ t < lbErrorPenalty THEN lbErrorPenalty ELSE t

(* LatencyRecorder.ServeHTTP after an upstream answered. *)
Served(r, t, error) ==
    LET d == at[r] IN
    /\ d # "none"
    /\ lbEntries' = lbRecord(d, Penalised(t, error))
    /\ at' = [at EXCEPT ![r] = "none"]
    /\ UNCHANGED <<pool, up, picked>>

(* A dial that failed sets no latency: nothing is recorded. *)
DialFailed(r) ==
    /\ at[r] # "none"
    /\ at' = [at EXCEPT ![r] = "none"]
    /\ UNCHANGED <<lbEntries, pool, up, picked>>

(* Caddy's health checks and a reload; neither touches the registry. *)
Health(d) ==
    /\ up' = IF d \in up THEN up \ {d} ELSE up \union {d}
    /\ UNCHANGED <<lbEntries, pool, at, picked>>

Reload ==
    /\ pool' \in Pools
    /\ UNCHANGED <<lbEntries, up, at, picked>>

HalfLife ==
    /\ \E d \in DOMAIN lbEntries : lbEntries[d].age < MaxSilence
    /\ lbEntries' = [d \in DOMAIN lbEntries |->
                        [lbEntries[d] EXCEPT !.age = IF @ < MaxAge THEN @ + 1 ELSE @]]
    /\ UNCHANGED <<pool, up, at, picked>>

Next ==
    \/ \E r \in Request : Select(r) \/ DialFailed(r)
    \/ \E r \in Request, t \in Latency, error \in BOOLEAN : Served(r, t, error)
    \/ \E d \in Dial : Health(d)
    \/ Reload \/ HalfLife

Spec == Init /\ [][Next]_vars

(* A request in flight is answered. *)
Answered(r) == \E t \in Latency, error \in BOOLEAN : Served(r, t, error)

-----------------------------------------------------------------------------
(* No upstream is exiled by bad samples: one that stays configured and
   available is selected again and again, since it ages while the others
   are sampled (lb_registry.go:17). *)
ReExplored ==
    \A d \in Dial : <>[](d \in up /\ \E i \in DOMAIN pool : pool[i] = d) => []<>(picked = d)
=============================================================================
