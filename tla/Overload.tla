------------------------------- MODULE Overload -------------------------------
(***************************************************************************)
(* The overload controller across reloads.  It is process-global: started  *)
(* apps own it, the newest owner's configuration is current, and one       *)
(* sampler goroutine lives while there is an owner.  Hot paths read the    *)
(* level and the configuration as two separate atomics.                    *)
(***************************************************************************)
EXTENDS Integers, Sequences

CONSTANTS
    Gen,          \* app generations
    Req,          \* requests the WAF bridge is asked about
    Config,       \* Config[g]: "nil" (absent), "off", "observe" or "enforce"
    MaxSampler    \* bound of the model: samplers started in one behaviour

(* What the configuration guarantees. *)
OverloadAssumption ==
    /\ MaxSampler \in Nat
    /\ Config \in [Gen -> {"nil", "off", "observe", "enforce"}]

VARIABLES
    life,       \* life[g]: "new", "wait" (inside overloadRetain), "up", "down"
    owners,     \* started apps, oldest first
    cfg,        \* overload.cfg
    level,      \* overload.level
    spawned,    \* number of samplers started; the last one's channels are c.stop, c.done
    stopped,    \* samplers whose stop channel is closed
    smp,        \* smp[i]: sampler i: where it is, its remembered level, the config it read
    rq          \* rq[r]: the request's position in SkipWAF

vars == <<life, owners, cfg, level, spawned, stopped, smp, rq>>
registry == <<life, owners, cfg, spawned, stopped>>

Sampler == 1 .. MaxSampler
NoSampler == [pc |-> "none", level |-> 0, rt |-> "nil"]
Done(i) == i \notin {j \in Sampler : smp[j].pc # "done"}
Alive == {i \in Sampler : smp[i].pc \in {"first", "loop", "sampling"}}

Init ==
    /\ life = [g \in Gen |-> "new"]
    /\ owners = <<>> /\ cfg = "nil" /\ level = 0
    /\ spawned = 0 /\ stopped = {}
    /\ smp = [i \in Sampler |-> NoSampler]
    /\ rq = [r \in Req |-> "idle"]

-----------------------------------------------------------------------------
(* The owner registry, under c.mu *)

(* c.mu is held across the wait for the previous sampler. *)
MuFree == \A g \in Gen : life[g] # "wait"

(* applyOverloadConfig: no config also resets the level. *)
applyOverloadConfig(c) ==
    /\ cfg' = c
    /\ level' = IF c = "nil" THEN 0 ELSE level

(* Faulty: the first owner does not wait for the previous sampler. *)
NeverWait == TRUE

PreviousDone == Done(spawned)

Spawn ==
    /\ spawned' = spawned + 1
    /\ smp' = [smp EXCEPT ![spawned + 1] = [NoSampler EXCEPT !.pc = "first"]]

(* overloadRetain registers the app and makes its config current; the first
   owner starts a sampler, ... *)
overloadRetain(g) ==
    /\ life[g] = "new" /\ MuFree
    /\ owners' = Append(owners, g)
    /\ applyOverloadConfig(Config[g])
    /\ \/ /\ owners # <<>>
          /\ life' = [life EXCEPT ![g] = "up"]
          /\ UNCHANGED <<spawned, smp>>
       \/ /\ owners = <<>> /\ PreviousDone /\ spawned < MaxSampler
          /\ life' = [life EXCEPT ![g] = "up"]
          /\ Spawn
       \/ /\ owners = <<>> /\ ~PreviousDone /\ spawned < MaxSampler
          /\ life' = [life EXCEPT ![g] = "wait"]
          /\ UNCHANGED <<spawned, smp>>
    /\ UNCHANGED <<stopped, rq>>

(* ... once the previous one has returned. *)
RetainSpawns(g) ==
    /\ life[g] = "wait" /\ Done(spawned)
    /\ Spawn
    /\ life' = [life EXCEPT ![g] = "up"]
    /\ UNCHANGED <<owners, cfg, level, stopped, rq>>

Without(s, i) == [j \in 1 .. Len(s) - 1 |-> IF j < i THEN s[j] ELSE s[j + 1]]

ReleasedNewest(i) == i = Len(owners)

(* Faulty: the last release leaves the sampler running. *)
LeaveRunning == UNCHANGED stopped

CloseStop == stopped' = stopped \cup {spawned}

(* overloadRelease: the newest live owner's config is current; the last
   release turns control off and closes the sampler's stop channel. *)
overloadRelease(g) ==
    \E i \in DOMAIN owners :
        LET left == Without(owners, i)
        IN  /\ life[g] = "up" /\ MuFree /\ owners[i] = g
            /\ life' = [life EXCEPT ![g] = "down"]
            /\ owners' = left
            /\ \/ /\ left # <<>>
                  /\ IF ReleasedNewest(i) THEN applyOverloadConfig(Config[left[Len(left)]])
                                          ELSE UNCHANGED <<cfg, level>>
                  /\ UNCHANGED stopped
               \/ /\ left = <<>>
                  /\ applyOverloadConfig("nil")
                  /\ CloseStop
            /\ UNCHANGED <<spawned, smp, rq>>

-----------------------------------------------------------------------------
(* The sampler *)

(* sampleOnce reads the config first: without one it forgets its state and
   resets the level. *)
SampleBegins(i) ==
    /\ smp[i].pc \in {"first", "loop"}
    /\ \/ /\ cfg = "nil"
          /\ smp' = [smp EXCEPT ![i] = [NoSampler EXCEPT !.pc = "loop"]]
          /\ level' = 0
       \/ /\ cfg # "nil"
          /\ smp' = [smp EXCEPT ![i].pc = "sampling", ![i].rt = cfg]
          /\ UNCHANGED level
    /\ UNCHANGED <<registry, rq>>

(* The levels nextLevel can give after l (LevelControl!FallsByOne). *)
Levels(l) == IF l = 2 THEN {1, 2} ELSE 0 .. 2

(* It publishes the level its signals lead to. *)
SamplePublishes(i, l) ==
    /\ smp[i].pc = "sampling" /\ l \in Levels(smp[i].level)
    /\ smp' = [smp EXCEPT ![i] = [pc |-> "loop", level |-> l, rt |-> "nil"]]
    /\ level' = l
    /\ UNCHANGED <<registry, rq>>

Samples(i) == SampleBegins(i) \/ \E l \in 0 .. 2 : SamplePublishes(i, l)

(* sampleLoop returns when its select sees the closed stop channel. *)
SamplerReturns(i) ==
    /\ smp[i].pc = "loop" /\ i \in stopped
    /\ smp' = [smp EXCEPT ![i] = [NoSampler EXCEPT !.pc = "done"]]
    /\ UNCHANGED <<registry, level, rq>>

-----------------------------------------------------------------------------
(* SkipWAF loads the level, ... *)
SkipReadsLevel(r) ==
    /\ rq[r] = "idle" /\ level >= 1
    /\ rq' = [rq EXCEPT ![r] = "level"]
    /\ UNCHANGED <<registry, level, smp>>

(* ... then the config, which only enforces in one mode. *)
SkipReadsConfig(r) ==
    /\ rq[r] = "level"
    /\ rq' = [rq EXCEPT ![r] = IF cfg = "enforce" THEN "skipped" ELSE "idle"]
    /\ UNCHANGED <<registry, level, smp>>

SkipReturns(r) ==
    /\ rq[r] = "skipped"
    /\ rq' = [rq EXCEPT ![r] = "idle"]
    /\ UNCHANGED <<registry, level, smp>>

Next ==
    \/ \E g \in Gen : overloadRetain(g) \/ RetainSpawns(g) \/ overloadRelease(g)
    \/ \E i \in Sampler : Samples(i) \/ SamplerReturns(i)
    \/ \E r \in Req : SkipReadsLevel(r) \/ SkipReadsConfig(r) \/ SkipReturns(r)

Spec == Init /\ [][Next]_vars

-----------------------------------------------------------------------------
(* The controller serves its owners, whatever order apps start and stop in:
   the newest live app's config is current, so a load that fails after its
   apx_stats started gives the surviving app's config back (overload.go:365);
   two samplers never share the controller's sampler state, and while an app
   owns the controller one sampler runs that nobody told to stop
   (overload.go:345). *)
OwnersServed ==
    /\ cfg = IF owners = <<>> THEN "nil" ELSE Config[owners[Len(owners)]]
    /\ \A i, j \in Sampler : i \in Alive /\ j \in Alive => i = j
    /\ MuFree /\ owners # <<>> => Alive = {spawned} /\ spawned \notin stopped

(* overloadRetain gets out of its wait for the previous sampler although it
   holds the registry's mutex, and a sampler without owners ends. *)
RegistryProgresses ==
    /\ \A g \in Gen : life[g] = "wait" ~> life[g] = "up"
    /\ \A i \in Sampler : i \in stopped ~> smp[i].pc = "done"
=============================================================================
