---------------------------- MODULE FreeOSMemory -----------------------------
(***************************************************************************)
(* The debounced return of memory to the OS after configurations are torn  *)
(* down: every schedule stops the timer before it, but a timer that has    *)
(* expired cannot be stopped and its callback is still to run.             *)
(***************************************************************************)
EXTENDS Integers

CONSTANT MaxSchedules   \* bound of the model

(* What the model needs of its bound. *)
FreeOSMemoryAssumption == MaxSchedules \in Nat

VARIABLES
    freeOSMemGen, freeOSMemTimer,   \* the generation of the timer held; 0 is nil
    timer,      \* per generation: unset, armed, stopped, fired, calling or done
    owed        \* history: a schedule whose memory has not been returned since

vars == <<freeOSMemGen, freeOSMemTimer, timer, owed>>

Generation == 1..MaxSchedules

Init ==
    /\ freeOSMemGen = 0 /\ freeOSMemTimer = 0 /\ owed = FALSE
    /\ timer = [g \in Generation |-> "unset"]

(* Timer.Stop has no effect on a timer that has expired. *)
Stop(g) == IF g # 0 /\ timer[g] = "armed" THEN [timer EXCEPT ![g] = "stopped"] ELSE timer

scheduleFreeOSMemory ==
    /\ freeOSMemGen < MaxSchedules
    /\ freeOSMemGen' = freeOSMemGen + 1
    /\ timer' = [Stop(freeOSMemTimer) EXCEPT ![freeOSMemGen + 1] = "armed"]
    /\ freeOSMemTimer' = freeOSMemGen + 1
    /\ owed' = TRUE

Expire(g) ==
    /\ timer[g] = "armed"
    /\ timer' = [timer EXCEPT ![g] = "fired"]
    /\ UNCHANGED <<freeOSMemGen, freeOSMemTimer, owed>>

(* Faulty: the check of the wrong generation. *)
AlwaysStale(g) == g <= freeOSMemGen

Stale(g) == g # freeOSMemGen

(* The callback under the mutex ... *)
Callback(g) ==
    /\ timer[g] = "fired"
    /\ timer' = [timer EXCEPT ![g] = IF Stale(g) THEN "done" ELSE "calling"]
    /\ freeOSMemTimer' = IF Stale(g) THEN freeOSMemTimer ELSE 0
    /\ UNCHANGED <<freeOSMemGen, owed>>

(* ... and FreeOSMemory without it. *)
Call(g) ==
    /\ timer[g] = "calling"
    /\ timer' = [timer EXCEPT ![g] = "done"]
    /\ owed' = (owed /\ g # freeOSMemGen)
    /\ UNCHANGED <<freeOSMemGen, freeOSMemTimer>>

(* A timer runs: it expires, its callback takes the mutex, the call is made. *)
Runs(g) == Expire(g) \/ Callback(g) \/ Call(g)

Next == scheduleFreeOSMemory \/ \E g \in Generation : Runs(g)

Spec == Init /\ [][Next]_vars

-----------------------------------------------------------------------------
(* A timer superseded before its callback had the mutex never calls
   FreeOSMemory, expired or not, so a burst makes one call; and once reloads
   stop, the memory of the last one is returned (free_os_memory.go:14, :45). *)
Debounced ==
    /\ [][\A g \in Generation : g < freeOSMemGen /\ timer[g] # "calling" => timer'[g] # "calling"]_vars
    /\ owed ~> ~owed
=============================================================================
