--------------------------- MODULE ShipperProofs ----------------------------
(***************************************************************************)
(* Safety of Shipper for any number of generations, rows, tracks, slots    *)
(* and retries. IInv is inductive: the step lemmas here and in the modules *)
(* extended take each of its conjuncts across a step.                      *)
(***************************************************************************)
EXTENDS ShipperTypes, ShipperControl, ShipperRows, ShipperSends

(* Each leaf is tried with SMT, then with Zenon. *)
USE SMTT(30), ZenonT(30)

(* The initial states satisfy the inductive invariant. *)
LEMMA InitIInv == Init => IInv
<1> SUFFICES ASSUME Init PROVE IInv
  OBVIOUS
<1>1. TypeOK
  BY ShipperAssumption DEF Init, TypeOK, Poster, Drainer, Fate, Dropped
<1>2. Control
  BY DEF Init, Control, ControlOf, Poster, Drainer
<1>3. SlotAccounting
  <2>1. SlotHolders = {}
    BY DEF Init, SlotHolders
  <2> QED
    BY <2>1, FS_EmptySet, ShipperAssumption DEF Init, SlotAccounting
<1>4. ASSUME NEW g \in Gen PROVE ConservationOf(g)
  <2>1. \A r \in Row : req[g][r] = "none" /\ fate[g][r] = "pending"
    BY DEF Init
  <2>2. buf[g] = {} /\ acc[g]["flush"] = {} /\ acc[g]["work"] = {}
    BY DEF Init, Drainer
  <2>3. JobRows(g) = {}
    BY DEF Init, JobRows
  <2>4. queue[g] = <<>>
    BY DEF Init
  <2>5. Apart(queue[g]) /\ \A x : ~Queued(queue[g], x)
    BY <2>4 DEF Queued, Apart
  <2> QED
    BY <2>1, <2>2, <2>3, <2>5 DEF ConservationOf
<1>5. LateRowsAwaited
  BY DEF Init, LateRowsAwaited, AwaitedOf
<1>6. UnsentOrUnsure
  BY DEF Init, UnsentOrUnsure, UnsentOf, JobRows, Queued, Poster, Drainer
<1> QED
  BY <1>1, <1>2, <1>3, <1>4, <1>5, <1>6 DEF IInv, Conservation

(* Every step, stuttering included, keeps it. *)
LEMMA NextIInv == IInv /\ [Next]_vars => IInv'
<1>1. ASSUME IInv, Next PROVE IInv'
  <2>1. SlotAccounting'
    BY <1>1, SlotStep DEF IInv
  <2>2. slots' \in Nat
    <3>1. IsFiniteSet(SlotHolders)'
      BY HoldersFinite, PTL
    <3> QED
      BY <2>1, <3>1, FS_CardinalityType DEF SlotAccounting
  <2> QED
    BY <1>1, <2>1, <2>2, TypeStep, ControlStep, ConservationStep, AwaitedStep,
       UnsentStep DEF IInv
<1>2. ASSUME IInv, UNCHANGED vars PROVE IInv'
  <2> USE <1>2
        DEF vars, drainVars, queueVars, postVars, ingestVars, shipVars, stopVars, workVars
  <2>1. TypeOK'
    BY DEF IInv, TypeOK
  <2>2. Control'
    BY DEF IInv, Control, ControlOf
  <2>3. SlotAccounting'
    BY DEF IInv, SlotAccounting, SlotHolders
  <2>4. Conservation'
    BY DEF IInv, Conservation, ConservationOf, JobRows
  <2>5. LateRowsAwaited'
    BY DEF IInv, LateRowsAwaited, AwaitedOf, httpRetired
  <2>6. UnsentOrUnsure'
    BY DEF IInv, UnsentOrUnsure, UnsentOf, JobRows
  <2> QED
    BY <2>1, <2>2, <2>3, <2>4, <2>5, <2>6 DEF IInv
<1> QED
  BY <1>1, <1>2

(* IInv holds in every reachable state. *)
THEOREM Invariance == Spec => []IInv
  BY InitIInv, NextIInv, PTL DEF Spec

(* Type correctness: in particular the retry budget of shipWithRetryWait and the
   tokens of retiredShipSlots never fall below zero. *)
THEOREM TypeCorrect == Spec => []TypeOK
<1>1. IInv => TypeOK
  BY DEF IInv
<1> QED
  BY <1>1, Invariance, PTL

(* Every exit path of shipLoop and deliverRetiredHTTP gives back exactly the
   token of retiredShipSlots it took, and the process-wide bound holds, with
   any number of overlapping generations. *)
THEOREM SlotsBounded == Spec => []SlotAccounting
<1>1. IInv => SlotAccounting
  BY DEF IInv
<1> QED
  BY <1>1, Invariance, PTL

(* drainAndEncode, enqueueShip, shipLoop, dropQueued and deliverRetiredHTTP
   neither lose nor duplicate a row, nor count one twice. *)
THEOREM RowsConserved == Spec => []Conservation
<1>1. IInv => Conservation
  BY DEF IInv
<1> QED
  BY <1>1, Invariance, PTL

(* deliverRetiredHTTP never drains beside flushLoop. *)
THEOREM DrainsExclusive == Spec => []NoConcurrentDrain
<1>1. IInv => NoConcurrentDrain
  BY DEF IInv, Control, ControlOf, NoConcurrentDrain
<1> QED
  BY <1>1, Invariance, PTL

(* shipDone closes only when the final drain has been shipped or dropped. *)
THEOREM DoneIsFinal == Spec => []DoneMeansShipped
<1>1. IInv => DoneMeansShipped
  BY DEF IInv, Control, ControlOf, DoneMeansShipped
<1> QED
  BY <1>1, Invariance, PTL

(* A retired generation at rest has settled every finished HTTP row: a signal
   left by finishHTTPRecord or Stop is never lost by deliverRetiredHTTP. *)
THEOREM LateRowsSettle == Spec => []LateHttpRowsSettled
<1>1. IInv => LateHttpRowsSettled
  <2> SUFFICES ASSUME IInv, NEW g \in Gen, NEW r \in Row, Quiet(g), Http(r),
                      req[g][r] = "finished", fate[g][r] = "pending"
               PROVE  FALSE
    BY DEF LateHttpRowsSettled
  <2>1. ControlOf(g) /\ ConservationOf(g) /\ AwaitedOf(g)
    BY DEF IInv, Control, Conservation, LateRowsAwaited
  <2>2. queue[g] = <<>> /\ JobRows(g) = {} /\ acc[g]["flush"] = {} /\ acc[g]["work"] = {}
    BY <2>1 DEF ControlOf, Quiet, JobRows
  <2>3. ~Queued(queue[g], r)
    BY <2>2 DEF Queued
  <2>4. r \in buf[g]
    BY <2>1, <2>2, <2>3 DEF ConservationOf
  <2>5. ~pending[g] /\ work[g] = "off"
    BY <2>1 DEF ControlOf, Quiet
  <2> QED
    BY <2>1, <2>4, <2>5 DEF AwaitedOf, Quiet, httpRetired
<1> QED
  BY <1>1, Invariance, PTL

(* Stop never makes the ingest take a row twice: only an answer lost on its way
   back does, because a tick ship in flight is not cut by tickCancel. *)
THEOREM NoResendByStop == Spec => []ResendOnlyAfterLostAnswer
<1>1. IInv => ResendOnlyAfterLostAnswer
  BY DEF IInv, UnsentOrUnsure, UnsentOf, ResendOnlyAfterLostAnswer
<1> QED
  BY <1>1, Invariance, PTL
=============================================================================
