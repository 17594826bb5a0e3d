---------------------------- MODULE CorazaWriter ----------------------------
(***************************************************************************)
(* The WAF's audit-log writer is global: it finds the app through an       *)
(* atomic pointer that each generation stores at the end of its Provision  *)
(* and clears at Stop.  Generations are loaded one at a time by Caddy      *)
(* (external): the new one is provisioned and started, then the old one is *)
(* stopped; a load that fails is cleaned up without a Stop.                *)
(***************************************************************************)
EXTENDS Integers, FiniteSets, FiniteSetsExt

CONSTANTS
    MaxGen,             \* generations 1 .. MaxGen; bound of the model
    Worker,             \* audit logs written at the same time
    MaxRules,           \* rules fired per transaction; bound of the model
    corazaMaxEvents,
    MaxWrites           \* bound of the model

(* What the configuration guarantees. *)
CorazaWriterAssumption == {MaxGen, MaxRules, corazaMaxEvents, MaxWrites} \subseteq Nat \ {0}

VARIABLES
    phase,      \* phase[g]: new, provisioned, running, detached, drained or discarded
    corazaApp,  \* the published generation, 0 for nil
    events,     \* events[g]: detections buffered
    overflow,   \* corazaOverflow, all generations together
    wr,         \* wr[w]: the app an audit log was handed to, and the rules left
    writes      \* audit logs written, bounded by MaxWrites

vars == <<phase, corazaApp, events, overflow, wr, writes>>

Gen == 1 .. MaxGen
Idle == [app |-> 0, left |-> 0]
Loading(g) == phase[g] = "provisioned"
Running(g) == phase[g] = "running"

Init ==
    /\ phase = [g \in Gen |-> "new"]
    /\ corazaApp = 0
    /\ events = [g \in Gen |-> 0] /\ overflow = 0
    /\ wr = [w \in Worker |-> Idle]
    /\ writes = 0

(* Caddy loads a config; the end of Provision publishes the app. *)
Provision(g) ==
    /\ phase[g] = "new"
    /\ \A h \in Gen : (h < g => phase[h] # "new") /\ ~Loading(h)
    /\ Cardinality({h \in Gen : phase[h] \in {"running", "detached"}}) <= 1
    /\ phase' = [phase EXCEPT ![g] = "provisioned"]
    /\ corazaApp' = g
    /\ UNCHANGED <<events, overflow, wr, writes>>

Start(g) ==
    /\ Loading(g)
    /\ phase' = [phase EXCEPT ![g] = "running"]
    /\ UNCHANGED <<corazaApp, events, overflow, wr, writes>>

(* Another app of the config fails to load or to start: Cleanup, no Stop. *)
Cleanup(g) ==
    /\ Loading(g)
    /\ phase' = [phase EXCEPT ![g] = "discarded"]
    /\ UNCHANGED <<corazaApp, events, overflow, wr, writes>>

(* Faulty: Stop clears the pointer whoever is published. *)
Clear(g) == 0

ClearOwn(g) == IF corazaApp = g THEN 0 ELSE corazaApp

(* Stop, once a successor runs, the process ends, or an app started later has
   failed and this one's predecessor stays: detach first, ... *)
Stop(g) ==
    /\ Running(g)
    /\ \A h \in Gen : ~Loading(h)
    /\ (\E h \in Gen \ {g} : Running(h)) \/ g = MaxGen
    /\ phase' = [phase EXCEPT ![g] = "detached"]
    /\ corazaApp' = ClearOwn(g)
    /\ UNCHANGED <<events, overflow, wr, writes>>

Ship(g) == events' = [events EXCEPT ![g] = 0]

(* ... then the flush loop drains once more and exits. *)
FinalDrain(g) ==
    /\ phase[g] = "detached"
    /\ phase' = [phase EXCEPT ![g] = "drained"]
    /\ Ship(g)
    /\ UNCHANGED <<writes, corazaApp, overflow, wr>>

(* A tick of a running app's flush loop: corazaSnapshot. *)
corazaSnapshot(g) ==
    /\ Running(g) /\ events[g] > 0
    /\ Ship(g)
    /\ UNCHANGED <<writes, phase, corazaApp, overflow, wr>>

(* Write: the pointer is loaded once for all the rules of a transaction. *)
Write(w, n) ==
    /\ wr[w] = Idle /\ writes < MaxWrites
    /\ writes' = writes + 1
    /\ wr' = [wr EXCEPT ![w] = IF corazaApp = 0 THEN Idle ELSE [app |-> corazaApp, left |-> n]]
    /\ UNCHANGED <<phase, corazaApp, events, overflow>>

Full(g) == events[g] >= corazaMaxEvents

RecordCorazaDetection(w) ==
    LET g == wr[w].app IN
    /\ wr[w].left > 0
    /\ IF Full(g) THEN overflow' = overflow + 1 /\ UNCHANGED events
                  ELSE events' = [events EXCEPT ![g] = @ + 1] /\ UNCHANGED overflow
    /\ wr' = [wr EXCEPT ![w] = IF @.left = 1 THEN Idle ELSE [@ EXCEPT !.left = @ - 1]]
    /\ UNCHANGED <<phase, corazaApp, writes>>

Next ==
    \/ \E g \in Gen : Provision(g) \/ Start(g) \/ Cleanup(g) \/ Stop(g) \/ FinalDrain(g) \/ corazaSnapshot(g)
    \/ \E w \in Worker : RecordCorazaDetection(w) \/ \E n \in 1 .. MaxRules : Write(w, n)

Spec == Init /\ [][Next]_vars

-----------------------------------------------------------------------------
Failed(g) == phase[g] = "discarded" \/ (phase[g] \in {"detached", "drained"} /\ \E h \in 1 .. g - 1 : Running(h))

(* While a generation runs and no load has failed, some running or loading
   app is published: the Stop of the previous generation never takes its
   successor's pointer away (app.go:672). *)
SuccessorPublished ==
    (\E g \in Gen : Running(g)) /\ (\A g \in Gen : ~Failed(g))
        => corazaApp # 0 /\ (Running(corazaApp) \/ Loading(corazaApp))
=============================================================================
