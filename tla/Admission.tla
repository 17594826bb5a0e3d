------------------------------ MODULE Admission ------------------------------
(***************************************************************************)
(* Admission control.  A request takes its in-flight slot with one atomic  *)
(* add and is judged by the number of others that add saw; the level and   *)
(* the adaptive limit are atomics the sampler stores one after the other.  *)
(* A shed request returns its slot at once, an admitted one when it ends,  *)
(* or early, without a completion, once its response proves a stream.      *)
(* The shed counters and the hard-cap flag it sets for the sampler are     *)
(* inputs of NodeState and LevelControl.                                   *)
(***************************************************************************)
EXTENDS Integers, FiniteSets

CONSTANTS
    Req,           \* requests
    Arriving,      \* the classes they may have
    hardLimit,     \* resolved hard in-flight cap
    minLimit,      \* resolved floor of the adaptive limit, at most the cap
    Rate           \* values of completions/s times the latency target, rounded up

ASSUME AdmissionAssumption ==
    /\ IsFiniteSet(Req)
    /\ hardLimit \in Nat \ {0} /\ minLimit \in Nat \ {0} /\ minLimit <= hardLimit
    /\ Rate \subseteq Nat /\ Arriving \subseteq {"P0", "P1", "P2", "P3"}

VARIABLES
    mode,        \* admission mode of the current config
    inflight,    \* admissionInflight
    level, limit, \* overload.level and admissionLimitNow
    rq           \* rq[r]: the request in ServeHTTP

vars == <<mode, inflight, level, limit, rq>>

Class == {"P0", "P1", "P2", "P3"}
Idle == [pc |-> "idle", class |-> "P0", seen |-> 0, level |-> 0, enforce |-> FALSE,
         wrote |-> FALSE]
Stream == [Idle EXCEPT !.pc = "stream"]

(* pc "stream" is a response that was released early and is still running. *)
Request == [pc : {"idle", "entered", "judged", "serving", "stream"}, class : Class, seen : Int,
            level : {0, 2}, enforce : BOOLEAN, wrote : BOOLEAN]

TypeOK ==
    /\ mode \in {"off", "observe", "enforce"}
    /\ inflight \in Int /\ level \in {0, 2} /\ limit \in Nat
    /\ rq \in [Req -> Request]

Init ==
    /\ mode = "off" /\ inflight = 0 /\ level = 0 /\ limit = 0
    /\ rq = [r \in Req |-> Idle]

-----------------------------------------------------------------------------
(* A reload applies another config; the sampler publishes a level, ... *)
Reload(m) ==
    /\ mode' = m
    /\ UNCHANGED <<inflight, level, limit, rq>>

SampleLevel(l) ==
    /\ level' = l
    /\ UNCHANGED <<mode, inflight, limit, rq>>

adaptiveLimit(n) ==
    LET low == IF n < minLimit THEN minLimit ELSE n
    IN  IF low > hardLimit THEN hardLimit ELSE low

(* ... and then the adaptive limit, which applies from level 2 on. *)
SampleLimit(n) ==
    /\ limit' = IF level >= 2 /\ mode # "off" THEN adaptiveLimit(n) ELSE 0
    /\ UNCHANGED <<mode, inflight, level, rq>>

-----------------------------------------------------------------------------
(* ServeHTTP takes the slot and sees how many others hold one. *)
Enter(r, class) ==
    /\ rq[r].pc = "idle" /\ mode # "off"
    /\ rq' = [rq EXCEPT ![r] = [Idle EXCEPT !.pc = "entered", !.class = class,
                                            !.enforce = (mode = "enforce"), !.seen = inflight]]
    /\ inflight' = inflight + 1
    /\ UNCHANGED <<mode, level, limit>>

(* It loads the level; a calm node below the cap admits without classifying. *)
ReadLevel(r) ==
    /\ rq[r].pc = "entered"
    /\ rq' = [rq EXCEPT ![r] = IF level < 2 /\ rq[r].seen < hardLimit
                               THEN [@ EXCEPT !.pc = "serving"]
                               ELSE [@ EXCEPT !.pc = "judged", !.level = level]]
    /\ UNCHANGED <<mode, inflight, level, limit>>

hardAt(class) == IF class = "P1" THEN hardLimit + hardLimit \div 4 ELSE hardLimit

(* Faulty: the request that reaches the cap is still admitted. *)
HardShedAbove(class, n) == class # "P0" /\ n > hardAt(class)

(* admissionShouldShed: the hard cap at any level, the adaptive limit at
   level 2; P0 never. *)
HardShed(class, n) == class # "P0" /\ n >= hardAt(class)
AdaptiveShed(class, n, l, lim) ==
    /\ class # "P0" /\ l >= 2 /\ lim > 0
    /\ \/ class = "P3" /\ n * 2 >= lim
       \/ class = "P2" /\ n >= lim
       \/ class = "P1" /\ n * 2 >= lim * 3
admissionShouldShed(class, n, l, lim) == HardShed(class, n) \/ AdaptiveShed(class, n, l, lim)

(* It loads the limit and is admitted, in observe mode even what would be
   shed; ... *)
Admit(r) ==
    /\ rq[r].pc = "judged"
    /\ ~rq[r].enforce \/ ~admissionShouldShed(rq[r].class, rq[r].seen, rq[r].level, limit)
    /\ rq' = [rq EXCEPT ![r].pc = "serving", ![r].level = 0]
    /\ UNCHANGED <<mode, inflight, level, limit>>

(* ... or it returns its slot and is answered 503. *)
Shed(r) ==
    /\ rq[r].pc = "judged" /\ rq[r].enforce
    /\ admissionShouldShed(rq[r].class, rq[r].seen, rq[r].level, limit)
    /\ inflight' = inflight - 1
    /\ rq' = [rq EXCEPT ![r] = Idle]
    /\ UNCHANGED <<mode, level, limit>>

(* WriteHeader of a stream candidate: the first final header (1xx other than
   101 is not one) decides, and a stream (101, a 2xx CONNECT, an event stream)
   gives its slot back there.  A request that is no candidate never sends one. *)
WriteHeader(r, stream) ==
    /\ rq[r].pc = "serving" /\ ~rq[r].wrote
    /\ rq' = [rq EXCEPT ![r] = IF stream THEN Stream ELSE [@ EXCEPT !.wrote = TRUE]]
    /\ inflight' = IF stream THEN inflight - 1 ELSE inflight
    /\ UNCHANGED <<mode, level, limit>>

(* The deferred release of admit, on return or panic. *)
Finish(r) ==
    /\ rq[r].pc \in {"serving", "stream"}
    /\ inflight' = IF rq[r].pc = "stream" THEN inflight ELSE inflight - 1
    /\ rq' = [rq EXCEPT ![r] = Idle]
    /\ UNCHANGED <<mode, level, limit>>

Next ==
    \/ \E m \in {"off", "observe", "enforce"} : Reload(m)
    \/ \E l \in {0, 2} : SampleLevel(l)  \* admission does not tell 1 from 0
    \/ \E n \in Rate : SampleLimit(n)
    \/ \E r \in Req :
          \/ \E class \in Arriving : Enter(r, class)
          \/ ReadLevel(r) \/ Admit(r) \/ Shed(r)
          \/ \E stream \in BOOLEAN : WriteHeader(r, stream)
          \/ Finish(r)

Spec == Init /\ [][Next]_vars

-----------------------------------------------------------------------------
Counted == {r \in Req : rq[r].pc \in {"entered", "judged", "serving"}}
Admitted(classes) ==
    {r \in Counted : rq[r].pc = "serving" /\ rq[r].enforce /\ rq[r].class \in classes}

(* The in-flight count is the number of requests that took a slot and have not
   returned it: shedding, panics, streams released early and their deferred
   release leave it exact (admission.go:94, 125). *)
InflightExact == inflight = Cardinality(Counted)

(* However many requests arrive at once, enforced requests of the sheddable
   classes never hold more slots than the hard cap, and with navigations its
   quarter more: the add comes before the check (admission.go:57). *)
HardLimitHolds ==
    /\ Cardinality(Admitted({"P2", "P3"})) <= hardLimit
    /\ Cardinality(Admitted({"P1", "P2", "P3"})) <= hardLimit + hardLimit \div 4

(* Of any set of requests holding slots one, the last to enter, saw the others:
   why the hard cap holds. *)
SawTheOthers ==
    \A S \in SUBSET Counted : S # {} => \E r \in S : rq[r].seen >= Cardinality(S) - 1
=============================================================================
