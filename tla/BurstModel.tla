------------------------------ MODULE BurstModel ------------------------------
(***************************************************************************)
(* The model of a shared CPU's burst balance, against the machine it       *)
(* models.  The machine (external: it is inferred from what the sampler    *)
(* reads) accrues CPU-seconds up to a cap, spends them above its baseline, *)
(* and shows steal once they are gone; a performance machine never does.   *)
(* Balances are in CPU-seconds, baselines in cores, samples are a second   *)
(* apart unless the process was suspended.                                 *)
(***************************************************************************)
EXTENDS Integers

CONSTANTS
    vcpus,                \* a multiple of 16, so that the baseline is whole cores
    burstInitialPerVCPU, burstMaxPerVCPU, burstOnsetSamples,  \* 50, 500 and 3 in the code
    Demand                \* cores the node wants

(* What the configuration guarantees. *)
BurstModelAssumption ==
    /\ vcpus \in Nat /\ vcpus % 16 = 0
    /\ burstInitialPerVCPU \in 0 .. burstMaxPerVCPU /\ Demand \subseteq Nat

VARIABLES
    state, b, onset, drainNoSteal,   \* burstModel
    truth,                           \* the machine's balance
    Throttled,                       \* the machine is a shared one
    busy, steal                      \* the last sample's readings

vars == <<state, b, onset, drainNoSteal, truth, Throttled, busy, steal>>

burstOnsetPermille == 200
Ceiling == burstMaxPerVCPU * vcpus
baseline == vcpus \div 16
Clamp(x) == IF x < 0 THEN 0 ELSE IF x > Ceiling THEN Ceiling ELSE x

(* newBurstModel: a fresh machine's balance is known, any other's is not. *)
Init ==
    /\ onset = 0 /\ drainNoSteal = 0 /\ busy = 0 /\ steal = 0 /\ Throttled \in BOOLEAN
    /\ \/ /\ state = "calibrated" /\ b = burstInitialPerVCPU * vcpus /\ truth = b
       \/ /\ state = "uncalibrated" /\ b = 0 /\ truth \in 0 .. Ceiling

Onset(u, p) == p >= burstOnsetPermille /\ u >= baseline

(* Net drain above the baseline since steal was last seen, cut off past the
   ceiling it is compared with. *)
DrainNoSteal(u, p) ==
    LET d == drainNoSteal + (u - baseline)
    IN  IF p > 0 \/ d < 0 THEN 0 ELSE IF d > Ceiling THEN Ceiling + 1 ELSE d

(* step, for samples a second apart. *)
step(u, p) ==
    LET run == IF Onset(u, p) THEN onset + 1 ELSE 0
    IN  /\ onset' = IF run > burstOnsetSamples THEN burstOnsetSamples ELSE run
        /\ \/ /\ run >= burstOnsetSamples
              /\ state' = "calibrated" /\ b' = 0 /\ drainNoSteal' = 0
           \/ /\ run < burstOnsetSamples
              /\ drainNoSteal' = DrainNoSteal(u, p)
              /\ state' = IF DrainNoSteal(u, p) > Ceiling THEN "unthrottled" ELSE state
              /\ b' = IF state' = "calibrated" THEN Clamp(b + baseline - u) ELSE b

(* One second of the machine: it runs the demand while its balance lasts. *)
Machine(d, u, p) ==
    \/ /\ ~Throttled \/ d <= baseline + truth
       /\ u = d /\ p = 0
       /\ truth' = IF Throttled THEN Clamp(truth + baseline - d) ELSE truth
    \/ /\ Throttled /\ d > baseline + truth
       /\ u = baseline + truth /\ truth' = 0
       /\ \/ truth = 0 /\ p = 500
          \/ truth > 0 /\ p \in {100, 500}

Sample(d, u, p) ==
    /\ Machine(d, u, p)
    /\ step(u, p)
    /\ busy' = u /\ steal' = p /\ UNCHANGED Throttled


LoseCalibration == state' = "uncalibrated" /\ b' = 0 /\ onset' = 0 /\ drainNoSteal' = 0

(* A gap of more than burstMaxGapS: anything may have happened meanwhile. *)
Gap ==
    /\ LoseCalibration
    /\ truth' \in {0, Ceiling}
    /\ busy' = 0 /\ steal' = 0 /\ UNCHANGED Throttled

Next ==
    \/ \E d \in Demand, u \in 0 .. Ceiling + baseline, p \in {0, 100, 500} : Sample(d, u, p)
    \/ Gap

Spec == Init /\ [][Next]_vars

(* tte: seconds until the balance is gone, -1 when not calibrated or not
   draining; an exact fraction in the code, cut to whole seconds as
   burstEstSeconds does (its cap is past every balance of the model). *)
tte == IF state # "calibrated" \/ busy <= baseline THEN -1 ELSE b \div (busy - baseline)

-----------------------------------------------------------------------------
=============================================================================
