----------------------------- MODULE MCProgress -----------------------------
(***************************************************************************)
(* The parts of the system in which something must eventually happen, for  *)
(* TLC: small instances of the overload controller's registry, of the      *)
(* upstream selector and of the return of memory after reloads.  They      *)
(* share no variable, so a behaviour of this module follows one of them,   *)
(* chosen at the start, while the others rest; each part's fairness is     *)
(* that of the goroutines, requests and timers it runs.                    *)
(***************************************************************************)
EXTENDS Integers

VARIABLES
    part,                                                   \* the part that takes steps
    life, owners, cfg, level, spawned, stopped, smp, rq,
    lbEntries, pool, up, at, picked,
    freeOSMemGen, freeOSMemTimer, timer, owed

(* An enforcing app reloaded into a disabled and then an observing one. *)
Controller == INSTANCE Overload
    WITH Gen <- {"a", "b", "c"}, Req <- {"r1"}, MaxSampler <- 2,
         Config <- [a |-> "enforce", b |-> "nil", c |-> "observe"]

Balancer == INSTANCE LatencyBalancer
    WITH Dial <- {"a", "b"}, Request <- {"r1", "r2"}, Pools <- {<<"a", "b">>, <<"b">>},
         Latency <- {1, 2}, lbErrorPenalty <- 3, lbEvictAfter <- 4, MaxAge <- 5, MaxSilence <- 2

Memory == INSTANCE FreeOSMemory WITH MaxSchedules <- 4

ASSUME ProgressAssumption ==
    Controller!OverloadAssumption /\ Balancer!LatencyBalancerAssumption /\ Memory!FreeOSMemoryAssumption

Part == {"overload", "balancer", "memory"}

overloadVars == <<life, owners, cfg, level, spawned, stopped, smp, rq>>
balancerVars == <<lbEntries, pool, up, at, picked>>
memoryVars == <<freeOSMemGen, freeOSMemTimer, timer, owed>>

vars == <<part, overloadVars, balancerVars, memoryVars>>

(* A resting part has one initial state. *)
Init ==
    /\ part \in Part
    /\ Controller!Init /\ Balancer!Init /\ Memory!Init
    /\ part # "balancer" => pool = <<"b">>

(* Every part but p keeps its state. *)
OthersRest(p) ==
    /\ IF p = "overload" THEN TRUE ELSE UNCHANGED overloadVars
    /\ IF p = "balancer" THEN TRUE ELSE UNCHANGED balancerVars
    /\ IF p = "memory" THEN TRUE ELSE UNCHANGED memoryVars
    /\ UNCHANGED part

Next ==
    \/ part = "overload" /\ Controller!Next /\ OthersRest("overload")
    \/ part = "balancer" /\ Balancer!Next /\ OthersRest("balancer")
    \/ part = "memory" /\ Memory!Next /\ OthersRest("memory")

(* The sampler's ticker keeps it going, its select sees a closed stop channel
   sooner or later, and overloadRetain resumes once the channel it waits on
   is closed. *)
SamplerFairness ==
    /\ \A i \in 1 .. 2 :
          /\ WF_vars(part = "overload" /\ Controller!Samples(i) /\ OthersRest("overload"))
          /\ SF_vars(part = "overload" /\ Controller!SamplerReturns(i) /\ OthersRest("overload"))
    /\ WF_vars(part = "overload" /\ (\E g \in {"a", "b", "c"} : Controller!RetainSpawns(g))
                 /\ OthersRest("overload"))

(* Requests keep arriving and are answered, not every dial to an upstream
   fails, and time passes. *)
BalancerFairness ==
    /\ WF_vars(part = "balancer" /\ Balancer!HalfLife /\ OthersRest("balancer"))
    /\ \A r \in {"r1", "r2"} :
          /\ WF_vars(part = "balancer" /\ Balancer!Select(r) /\ OthersRest("balancer"))
          /\ SF_vars(part = "balancer" /\ Balancer!Answered(r) /\ OthersRest("balancer"))

(* Timers expire and their callbacks run. *)
TimerFairness ==
    \A g \in 1 .. 4 : WF_vars(part = "memory" /\ Memory!Runs(g) /\ OthersRest("memory"))

Spec == Init /\ [][Next]_vars /\ SamplerFairness /\ BalancerFairness /\ TimerFairness

-----------------------------------------------------------------------------
(* The newest live app's overload config is current and one sampler serves
   the owners (overload.go:345, :365). *)
OwnersServed == Controller!OwnersServed

(* The wait for the previous sampler ends, and so does a sampler without
   owners (overload.go:354, :386). *)
RegistryProgresses == Controller!RegistryProgresses

(* An upstream that stays available is selected again and again
   (lb_registry.go:17). *)
ReExplored == part = "balancer" => Balancer!ReExplored

(* A burst of reloads returns its memory, in one call
   (free_os_memory.go:14). *)
Debounced == Memory!Debounced
=============================================================================
