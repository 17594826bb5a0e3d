------------------------------ MODULE MCServing ------------------------------
(***************************************************************************)
(* The serving half of the system, for TLC: admission control and small    *)
(* instances of what decides on a request, learns from it or describes it. *)
(* The parts share no variable, so a behaviour of this module follows one  *)
(* of them, chosen at the start, while the others rest.                    *)
(***************************************************************************)
EXTENDS Admission, TLC

VARIABLES
    part,                                                   \* the part that takes steps
    admissionCompletions, admissionLatency, owing, rate, target, sample, limitNow, samples,
    means, episode,
    st, past,
    state, b, onset, drainNoSteal, truth, Throttled, busy, steal,
    cpu, share, hist, p99, gained,
    policy, all, text,
    pathPolicy, pathAll, path,
    evidenceVars, hdr, snapshot, at, event, first,
    modeV2, skip, exempt, requestVars, repl, before, recorder, gone, try, attempts, code, wire,
    servErr, out,
    closed, evidence, connections, failures, recent, final

Adaptive == INSTANCE AdaptiveLimit
    WITH Worker <- {1, 2}, Latency <- {3}, minCompletions <- 2, rateTau <- 2, peakTau <- 4,
         normalTau <- 2, minLatencyTarget <- 1, maxLatencyTarget <- 4, minLimit <- 1,
         hardLimit <- 12, Scale <- 4, MaxDone <- 3, MaxSamples <- 4, limit <- limitNow

(* The code's thresholds, its times in samples of which fewer are counted. *)
Level == INSTANCE LevelControl
    WITH conserveThrottle <- 100, shedThrottle <- 300, calmThrottle <- 50,
         conserveSched <- 20, shedSched <- 100, calmSched <- 10, burstTte <- 300,
         enterSamples <- 2, dwell <- 4, conserveExit <- 3, shedExit <- 2,
         Throttle <- {0, 50}, Sched <- {9, 100}, Tte <- {299, 300}, Horizon <- 5

Burst == INSTANCE BurstModel
    WITH vcpus <- 16, burstInitialPerVCPU <- 1, burstMaxPerVCPU <- 2, burstOnsetSamples <- 3,
         Demand <- {0, 1, 2, 6}

Signal == INSTANCE Signals
    WITH Tick <- {0, 3}, Runs <- {0, 1, 99}, Buckets <- 3, Window <- 3, MaxSamples <- 3

Long(v) == {[value |-> v, long |-> TRUE]}
Short(v) == {[value |-> v, long |-> FALSE]}

(* Values within a part, across segments, across parameters and across both. *)
AcrossSeparators ==
    {Long(<<"a", "b">>), Long(<<"a", "/", "b">>), Long(<<"a", "&", "b">>), Long(<<"a", "?", "b">>),
     Short(<<"a">>), Short(<<"a", "?">>), Short(<<"?", "b">>)}

URI == INSTANCE Redaction
    WITH Policies <- AcrossSeparators, Symbol <- {"/", "?", "&", "%", "a", "b"}, Start <- <<"/">>,
         Rounds <- 3, valueMax <- 4, limit <- 8, MaxLength <- 6

(* A path longer than the window, with a value that escapes to twice its size. *)
LongPath == INSTANCE Redaction
    WITH Policies <- {Long(<<"a", "a">>)}, Symbol <- {"/", "%", "5", "a"}, Start <- <<"/">>,
         Rounds <- 3, valueMax <- 4, limit <- 2, MaxLength <- 7,
         policy <- pathPolicy, all <- pathAll, text <- path

CorazaRules == 1 :> "a" @@ 2 :> "b" @@ 3 :> "b" @@ 9 :> "a"
SkippedRules == 2 :> "a" @@ 9 :> "c"
Arrived == {[all |-> TRUE, ids |-> <<>>], [all |-> FALSE, ids |-> <<1, 2>>],
            [all |-> FALSE, ids |-> <<2, 1>>]}

(* Two rules share a variable, one variable selects a rule and a skip, and
   rule 9 is not in the catalog: four selectors, enough to scan the variables. *)
Defense == INSTANCE DefenseEvidence
    WITH Var <- {"a", "b", "c"}, Catalog <- {1, 2, 3},
         CorazaRuleVars <- CorazaRules, SkipCorazaRuleVars <- SkippedRules,
         CorazaAllVar <- "c", ProbeBelow <- 4, Foreign <- Arrived, vars <- evidenceVars

(* The same configuration where four selectors are few enough to be probed. *)
Probing == INSTANCE DefenseEvidence
    WITH Var <- {"a", "b", "c"}, Catalog <- {1, 2, 3},
         CorazaRuleVars <- CorazaRules, SkipCorazaRuleVars <- SkippedRules,
         CorazaAllVar <- "c", ProbeBelow <- 5, Foreign <- Arrived, vars <- evidenceVars

Handler == INSTANCE StatsHandler WITH Code <- {200, 500}, MaxAttempts <- 2

(* One message ends in another, as a wrapped dial error does. *)
Upstream == INSTANCE UpstreamFailure
    WITH Message <- {<<"m">>, <<"dial", "m">>}, Kind <- {"timeout", "certificate"},
         maxEvidence <- 2, MaxConnections <- 1, MaxFailures <- 3

ASSUME ServingAssumption ==
    /\ Adaptive!AdaptiveLimitAssumption /\ Level!LevelControlAssumption
    /\ Burst!BurstModelAssumption /\ Signal!SignalsAssumption
    /\ URI!RedactionAssumption /\ LongPath!RedactionAssumption
    /\ Defense!DefenseEvidenceAssumption /\ Probing!DefenseEvidenceAssumption /\ Handler!StatsHandlerAssumption
    /\ Upstream!UpstreamFailureAssumption

Part == {"admission", "adaptive", "level", "burst", "signal", "uri", "path", "defense", "probing",
         "handler", "upstream"}

adaptiveVars == <<admissionCompletions, admissionLatency, owing, rate, target, sample, limitNow, samples,
                  means, episode>>
levelVars == <<st, past>>
burstVars == <<state, b, onset, drainNoSteal, truth, Throttled, busy, steal>>
signalVars == <<cpu, share, hist, p99, gained>>
uriVars == <<policy, all, text>>
pathVars == <<pathPolicy, pathAll, path>>
defenseVars == <<evidenceVars, hdr, snapshot, at, event, first>>
handlerVars == <<modeV2, skip, exempt, requestVars, repl, before, recorder, gone, try, attempts, code, wire,
                 servErr, out>>
upstreamVars == <<closed, evidence, connections, failures, recent, final>>

servingVars == <<part, vars, adaptiveVars, levelVars, burstVars, signalVars, uriVars, pathVars,
                 defenseVars, handlerVars, upstreamVars>>

(* A part that rests does so in one of its initial states. *)
ServingInit ==
    /\ part \in Part
    /\ Init /\ Adaptive!Init /\ Level!Init /\ Signal!Init /\ Upstream!Init
    /\ Burst!Init /\ (part # "burst" => state = "calibrated" /\ Throttled)
    /\ URI!Init /\ (part # "uri" => policy = Short(<<"a">>) /\ ~all)
    /\ LongPath!Init /\ (part # "path" => ~pathAll)
    /\ Defense!Init /\ (part \notin {"defense", "probing"} => hdr = Defense!NoMarkers)
    /\ Handler!Init
    /\ exempt = modeV2 /\ requestVars.verify = skip       \* each varies, not every pair
    /\ part # "handler" =>
          /\ modeV2 /\ ~skip /\ repl.status = 0
          /\ requestVars = [vhost |-> 1, key |-> TRUE, reason |-> "", outcome |-> "", verify |-> FALSE]

(* Every part but p keeps its state. *)
OthersRest(p) ==
    /\ IF p = "admission" THEN TRUE ELSE UNCHANGED vars
    /\ IF p = "adaptive" THEN TRUE ELSE UNCHANGED adaptiveVars
    /\ IF p = "level" THEN TRUE ELSE UNCHANGED levelVars
    /\ IF p = "burst" THEN TRUE ELSE UNCHANGED burstVars
    /\ IF p = "signal" THEN TRUE ELSE UNCHANGED signalVars
    /\ IF p = "uri" THEN TRUE ELSE UNCHANGED uriVars
    /\ IF p = "path" THEN TRUE ELSE UNCHANGED pathVars
    /\ IF p = "defense" THEN TRUE ELSE UNCHANGED defenseVars
    /\ IF p = "handler" THEN TRUE ELSE UNCHANGED handlerVars
    /\ IF p = "upstream" THEN TRUE ELSE UNCHANGED upstreamVars
    /\ UNCHANGED part

ServingNext ==
    \/ part = "admission" /\ Next /\ OthersRest("admission")
    \/ part = "adaptive" /\ Adaptive!Next /\ OthersRest("adaptive")
    \/ part = "level" /\ Level!Next /\ OthersRest("level")
    \/ part = "burst" /\ Burst!Next /\ OthersRest("burst")
    \/ part = "signal" /\ Signal!Next /\ OthersRest("signal")
    \/ part = "uri" /\ URI!Next /\ OthersRest("uri")
    \/ part = "path" /\ LongPath!Next /\ OthersRest("path")
    \/ part = "defense" /\ Defense!Next /\ OthersRest("defense")
    \/ part = "probing" /\ Probing!Next /\ OthersRest("defense")
    \/ part = "handler" /\ Handler!Next /\ OthersRest("handler")
    \/ part = "upstream" /\ Upstream!Next /\ OthersRest("upstream")

ServingSpec == ServingInit /\ [][ServingNext]_servingVars

-----------------------------------------------------------------------------
(* Shedding does not feed on itself: the limit decays no faster than its peak,
   whatever completes during an overload (admission.go:229). *)
LimitHeld == part = "adaptive" => Adaptive!LimitHeld


(* The overload level rises only after a run of bad samples and falls one step
   at a time, after its dwell and a run of calm ones (overload.go:239). *)
Hysteresis == [][Level!HysteresisStep]_levelVars


(* The steal share and the scheduling p99 are those of the readings since the
   last sample and within the window (overload_signals.go:58, :116). *)
ReadingsExact == part = "signal" => Signal!ReadingsExact

(* No managed value is left in a redacted request target, and what carried
   none is kept (managed_header_privacy.go:360, :409). *)
NothingCarried == part = "uri" => URI!NothingCarried


(* A WAF finding is exempt exactly if the first capture, or the route of an
   older WAF, said so (defense_evidence.go:147, coraza_writer.go:390). *)
ExemptByCapture == part \in {"defense", "probing"} => Defense!ExemptByCapture


(* Health evidence and proxy errors are those of the last upstream attempt
   (domain_health.go:41, handler.go:525). *)
LastAttemptDecides == part = "handler" => Handler!LastAttemptDecides

=============================================================================
