--------------------------- MODULE AdaptiveLimit ---------------------------
(***************************************************************************)
(* What the sampler learns for the adaptive limit: the rate of completions *)
(* and this node's normal latency, from two counters that finishing        *)
(* requests add to one after the other and the sampler loads one after the *)
(* other.  Samples are a second apart unless the process was suspended.    *)
(* Averages are kept in 1/Scale of a unit, and 1 - exp(-1/T), the weight   *)
(* of a second in an average of T seconds, is taken as 1/T.                *)
(***************************************************************************)
EXTENDS Integers, FiniteSets

CONSTANTS
    Worker,                 \* requests that may finish at the same time
    Latency,                \* latencies of requests, in seconds
    minCompletions,         \* 20 in the code
    rateTau, peakTau, normalTau,            \* 10, 60 and 300 s in the code
    minLatencyTarget, maxLatencyTarget,     \* 1 and 10 s in the code
    minLimit, hardLimit,
    Scale,
    MaxDone, MaxSamples     \* bounds of the model

(* What the configuration guarantees. *)
AdaptiveLimitAssumption ==
    /\ Latency \subseteq Nat \ {0} /\ minCompletions \in Nat \ {0} /\ Scale \in Nat \ {0}
    /\ \A T \in {rateTau, peakTau, normalTau} : T \in Nat \ {0}
    /\ minLatencyTarget \in 1 .. maxLatencyTarget /\ minLimit \in 1 .. hardLimit
    /\ MaxDone \in Nat /\ MaxSamples \in Nat

VARIABLES
    admissionCompletions, admissionLatency,
    owing,      \* owing[w]: the latency w has still to add, 0 for none
    rate,       \* completionRate
    target,     \* latencyTarget
    sample,     \* the sample being taken: which load is next, its level and its loads
    limit,      \* admissionLimitNow
    samples,
    means,      \* history: lowest and highest mean of a regular sample at level 0
    episode     \* history: rate, target and age of the run of level-2 samples, <<>> outside

vars == <<admissionCompletions, admissionLatency, owing, rate, target, sample, limit,
          samples, means, episode>>

NewRate == [last |-> 0, ewma |-> 0, peak |-> 0, started |-> FALSE]
NewTarget == [lastN |-> 0, lastNs |-> 0, normal |-> 0, started |-> FALSE]
NoMeans == [low |-> 0, high |-> 0]
Resting == [at |-> "rest"]

Init ==
    /\ admissionCompletions = 0 /\ admissionLatency = 0 /\ owing = [w \in Worker |-> 0]
    /\ rate = NewRate /\ target = NewTarget /\ sample = Resting
    /\ limit = 0 /\ samples = 0
    /\ means = NoMeans /\ episode = <<>>

AtLeast(a, b) == IF a < b THEN b ELSE a
AtMost(a, b) == IF a > b THEN b ELSE a

-----------------------------------------------------------------------------
(* A request's end: it is counted, then its latency is added. *)
admissionDone(w, l) ==
    /\ owing[w] = 0 /\ admissionCompletions < MaxDone
    /\ admissionCompletions' = admissionCompletions + 1
    /\ owing' = [owing EXCEPT ![w] = l]
    /\ UNCHANGED <<admissionLatency, rate, target, sample, limit, samples, means, episode>>

AddLatency(w) ==
    /\ owing[w] # 0
    /\ admissionLatency' = admissionLatency + owing[w]
    /\ owing' = [owing EXCEPT ![w] = 0]
    /\ UNCHANGED <<admissionCompletions, rate, target, sample, limit, samples, means, episode>>

-----------------------------------------------------------------------------
(* The peak an average is held up by. *)
Decayed(peak) == peak - peak \div peakTau

(* Faulty: nothing holds the average up. *)
BareAverage(ewma, peak) == ewma

HeldUp(ewma, peak) == AtLeast(ewma, Decayed(peak))

(* completionRate.sample *)
RateSample(c, total, regular) ==
    LET ewma == c.ewma + ((total - c.last) * Scale - c.ewma) \div rateTau
    IN  IF c.started /\ regular
        THEN [c EXCEPT !.last = total, !.ewma = ewma, !.peak = HeldUp(ewma, c.peak)]
        ELSE [c EXCEPT !.last = total, !.started = TRUE]

RateOf(c) == AtLeast(c.ewma, c.peak)


Learns(t, dn, regular, level) == t.started /\ regular /\ level = 0 /\ dn >= minCompletions

Mean(dn, dns) == (dns * Scale) \div dn

(* latencyTarget.sample *)
TargetSample(t, n, ns, regular, level) ==
    LET dn == n - t.lastN
        mean == Mean(dn, ns - t.lastNs)
        normal == IF ~Learns(t, dn, regular, level) THEN t.normal
                  ELSE IF t.normal = 0 THEN mean
                  ELSE t.normal + (mean - t.normal) \div normalTau
    IN  [lastN |-> n, lastNs |-> ns, normal |-> normal, started |-> TRUE]

TargetOf(t) == AtMost(AtLeast(2 * t.normal, minLatencyTarget * Scale), maxLatencyTarget * Scale)

CeilDiv(a, b) == (a + b - 1) \div b

adaptiveLimit(r, t) == AtMost(AtLeast(CeilDiv(r * t, Scale * Scale), minLimit), hardLimit)

-----------------------------------------------------------------------------
(* sampleOnce with a config whose admission control is live, from the level on:
   the two loads of the completions and that of the latencies.  The first
   sample has no interval; regular means one of at most 10 s. *)
SampleRate(level, regular) ==
    /\ sample.at = "rest" /\ samples < MaxSamples
    /\ samples' = samples + 1
    /\ rate' = RateSample(rate, admissionCompletions, regular)
    /\ sample' = [at |-> "completions", level |-> level, regular |-> regular, n |-> 0]
    /\ UNCHANGED <<means, admissionCompletions, admissionLatency, owing, target, limit, episode>>

LoadCompletions ==
    /\ sample.at = "completions"
    /\ sample' = [sample EXCEPT !.at = "latency", !.n = admissionCompletions]
    /\ UNCHANGED <<admissionCompletions, admissionLatency, owing, rate, target, limit, samples,
                   means, episode>>

Publish(level, r, t) == IF level >= 2 THEN adaptiveLimit(r, t) ELSE 0

LoadLatency ==
    /\ sample.at = "latency" /\ sample' = Resting
    /\ target' = TargetSample(target, sample.n, admissionLatency, sample.regular, sample.level)
    /\ limit' = Publish(sample.level, RateOf(rate), TargetOf(target'))
    /\ episode' = IF sample.level < 2 THEN <<>>
                  ELSE IF episode = <<>> THEN <<RateOf(rate), TargetOf(target'), 0>>
                  ELSE [episode EXCEPT ![3] = @ + 1]
    /\ LET dn == sample.n - target.lastN
           mean == Mean(dn, admissionLatency - target.lastNs)
       IN  means' = IF target.started /\ sample.regular /\ sample.level = 0 /\ dn >= minCompletions
                      THEN [means EXCEPT
                              !.low = IF means.high = 0 THEN mean ELSE AtMost(@, mean),
                              !.high = AtLeast(@, mean)]
                      ELSE means
    /\ UNCHANGED <<admissionCompletions, admissionLatency, owing, rate, samples>>

(* sampleOnce without a config: everything learned is forgotten. *)
SampleDisabled ==
    /\ sample.at = "rest" /\ rate.started
    /\ rate' = NewRate /\ target' = NewTarget
    /\ means' = NoMeans /\ episode' = <<>>
    /\ UNCHANGED <<admissionCompletions, admissionLatency, owing, sample, limit, samples>>

Next ==
    \/ \E w \in Worker : AddLatency(w) \/ \E l \in Latency : admissionDone(w, l)
    \/ \E level \in 0 .. 2, regular \in BOOLEAN : SampleRate(level, regular)
    \/ LoadCompletions \/ LoadLatency \/ SampleDisabled

Spec == Init /\ [][Next]_vars

-----------------------------------------------------------------------------
(* Shedding does not feed on itself: through a run of level-2 samples the limit
   loses at most one part in peakTau of where it began per second, whatever
   completes meanwhile (admission.go:229). *)
LimitHeld ==
    episode # <<>> /\ sample.at = "rest" /\ episode[3] <= peakTau =>
        limit >= adaptiveLimit((episode[1] * (peakTau - episode[3])) \div peakTau, episode[2])

=============================================================================
