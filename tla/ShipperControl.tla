--------------------------- MODULE ShipperControl ---------------------------
(***************************************************************************)
(* For any number of generations, rows, tracks, slots and retries: every   *)
(* step of Shipper keeps the relations between the program points of its   *)
(* goroutines (Control), and a drain stays ahead of every late row that is *)
(* still buffered (LateRowsAwaited).                                       *)
(***************************************************************************)
EXTENDS ShipperFrames

(* Each leaf is tried with SMT, then with Zenon. *)
USE SMTT(30), ZenonT(30)

(* The control points of a generation concern it alone. *)
LEMMA ControlFrame ==
    ASSUME NEW k \in Gen, ControlOf(k), Same(k)
    PROVE  ControlOf(k)'
  BY DEF Same, ControlOf

(* Control: the steps of a request, Start or Stop. *)
LEMMA ControlRequests ==
    ASSUME TypeOK, Control,
           NEW g \in Gen, Requests(g) \/ Start(g) \/ StopBegin(g) \/ StopReturn(g)
    PROVE  ControlOf(g)'
<1> USE DEF drainVars, queueVars, postVars, ingestVars, shipVars, stopVars, workVars,
   Poster, Drainer
<1>1. ASSUME NEW r \in Row, Record(g, r)
      PROVE  ControlOf(g)'
  BY <1>1 DEF TypeOK, Control, ControlOf, Record, Http
<1>2. ASSUME NEW r \in Row, finishHTTPRecord(g, r)
      PROVE  ControlOf(g)'
  BY <1>2 DEF TypeOK, Control, ControlOf, finishHTTPRecord, httpRetired,
     scheduleHTTPDelivery
<1>3. ASSUME Start(g)
      PROVE  ControlOf(g)'
  <2>1. /\ flush'[g] = "idle" /\ ship'[g] = "pop"
        /\ ControlOf(g) /\ flush[g] = "off"
    BY <1>3 DEF TypeOK, Control, Start
  <2> QED
    BY <1>3, <2>1 DEF ControlOf, Start
<1>4. ASSUME StopBegin(g)
      PROVE  ControlOf(g)'
  BY <1>4 DEF TypeOK, Control, ControlOf, StopBegin
<1>5. ASSUME StopReturn(g)
      PROVE  ControlOf(g)'
  BY <1>5 DEF TypeOK, Control, ControlOf, StopReturn, scheduleHTTPDelivery
<1> QED
  BY <1>1, <1>2, <1>3, <1>4, <1>5 DEF Requests

(* Control: the steps of flushLoop. *)
LEMMA ControlFlush ==
    ASSUME TypeOK, Control,
           NEW g \in Gen, flushLoop(g)
    PROVE  ControlOf(g)'
<1> USE DEF drainVars, queueVars, postVars, ingestVars, shipVars, stopVars, workVars,
   Poster, Drainer
<1>1. ASSUME FlushTick(g)
      PROVE  ControlOf(g)'
  BY <1>1 DEF TypeOK, Control, ControlOf, FlushTick
<1>2. ASSUME FlushStop(g)
      PROVE  ControlOf(g)'
  <2>1. flush[g] = "idle" /\ flush'[g] = "begin" /\ tickDone'[g]
    BY <1>2 DEF TypeOK, FlushStop
  <2> QED
    BY <1>2, <2>1 DEF Control, ControlOf, FlushStop
<1>3. ASSUME beginShutdownShipping(g)
      PROVE  ControlOf(g)'
  BY <1>3 DEF TypeOK, Control, ControlOf, beginShutdownShipping
<1>4. ASSUME NEW t \in Track, DrainTrack(g, "flush", t)
      PROVE  ControlOf(g)'
  BY <1>4 DEF TypeOK, Control, ControlOf, DrainTrack, Draining, RowsOf
<1>5. ASSUME FlushEmpty(g)
      PROVE  ControlOf(g)'
  BY <1>5 DEF TypeOK, Control, ControlOf, FlushEmpty, AfterEnqueue
<1>6. ASSUME FlushEncode(g)
      PROVE  ControlOf(g)'
  BY <1>6 DEF TypeOK, Control, ControlOf, FlushEncode
<1>7. ASSUME FlushEncodeFails(g)
      PROVE  ControlOf(g)'
  BY <1>7 DEF TypeOK, Control, ControlOf, FlushEncodeFails, AfterEnqueue
<1>8. ASSUME enqueueShip(g)
      PROVE  ControlOf(g)'
  <2>1. flush[g] = "push" /\ flush'[g] = AfterEnqueue(g)
    BY <1>8 DEF TypeOK, enqueueShip
  <2>2. acc'[g]["flush"] = {} /\ acc'[g]["work"] = acc[g]["work"]
    BY <1>8 DEF TypeOK, enqueueShip
  <2>3. UNCHANGED <<closed, ship, job, try, stop, ready, tickDone, work, pending>>
    BY <1>8 DEF enqueueShip
  <2> QED
    BY <2>1, <2>2, <2>3 DEF Control, ControlOf, AfterEnqueue
<1>9. ASSUME closeQueue(g)
      PROVE  ControlOf(g)'
  <2>1. flush[g] = "close" /\ flush'[g] = "done" /\ closed'[g]
    BY <1>9 DEF TypeOK, closeQueue
  <2> QED
    BY <1>9, <2>1 DEF Control, ControlOf, closeQueue
<1> QED
  BY <1>1, <1>2, <1>3, <1>4, <1>5, <1>6, <1>7, <1>8, <1>9 DEF flushLoop, Drainer

(* Control: the steps of shipWithRetryWait or a deadline. *)
LEMMA ControlPost ==
    ASSUME TypeOK, Control,
           NEW g \in Gen, NEW w \in Poster, shipWithRetryWait(g, w) \/ Expire(g, w)
    PROVE  ControlOf(g)'
<1> USE DEF drainVars, queueVars, postVars, ingestVars, shipVars, stopVars, workVars,
   Poster, Drainer
<1>1. ASSUME Expire(g, w)
      PROVE  ControlOf(g)'
  BY <1>1 DEF TypeOK, Control, ControlOf, Expire
<1>2. ASSUME Attempt(g, w)
      PROVE  ControlOf(g)'
  BY <1>2 DEF TypeOK, Control, ControlOf, Attempt, WaitDone
<1>3. ASSUME try[g][w] = "post", PostOk(g, w)
      PROVE  ControlOf(g)'
  BY <1>3 DEF TypeOK, Control, ControlOf, PostOk, PostEnds
<1>4. ASSUME try[g][w] = "post", PostRefused(g, w)
      PROVE  ControlOf(g)'
  BY <1>4 DEF TypeOK, Control, ControlOf, PostRefused, PostEnds
<1>5. ASSUME NEW taken \in {{}, Body(g, w)}, try[g][w] = "post", PostFails(g, w, taken)
      PROVE  ControlOf(g)'
  BY <1>5 DEF TypeOK, Control, ControlOf, PostFails, PostEnds, CtxDone, RetriesSpent
<1>6. ASSUME NEW taken \in {{}, Body(g, w)}, try[g][w] = "post", PostCut(g, w, taken)
      PROVE  ControlOf(g)'
  BY <1>6 DEF TypeOK, Control, ControlOf, PostCut, PostEnds, CtxDone
<1>7. ASSUME BackoffOver(g, w)
      PROVE  ControlOf(g)'
  BY <1>7 DEF TypeOK, Control, ControlOf, BackoffOver
<1>8. ASSUME BackoffCut(g, w)
      PROVE  ControlOf(g)'
  BY <1>8 DEF TypeOK, Control, ControlOf, BackoffCut, CtxDone, WaitDone
<1> QED
  BY <1>1, <1>2, <1>3, <1>4, <1>5, <1>6, <1>7, <1>8 DEF shipWithRetryWait, PostReturns

(* Control: the steps of shipLoop. *)
LEMMA ControlShip ==
    ASSUME TypeOK, Control,
           NEW g \in Gen, shipLoop(g)
    PROVE  ControlOf(g)'
<1> USE DEF drainVars, queueVars, postVars, ingestVars, shipVars, stopVars, workVars,
   Poster, Drainer
<1>1. ASSUME PopTickJob(g)
      PROVE  ControlOf(g)'
  <2>1. Head(queue[g]) # NoJob
    <3>1. queue[g] \in Seq(Job) /\ queue[g] # <<>>
      BY <1>1 DEF TypeOK, PopTickJob, Pop
    <3>2. Head(queue[g]) \in Job
      BY <3>1
    <3> QED
      BY <3>2, ShipperAssumption
  <2> QED
    BY <1>1, <2>1 DEF TypeOK, Control, ControlOf, PopTickJob, Pop, StartShip, NeedsShutdown
<1>2. ASSUME PopShutdownJob(g)
      PROVE  ControlOf(g)'
  <2>1. Head(queue[g]) # NoJob
    <3>1. queue[g] \in Seq(Job) /\ queue[g] # <<>>
      BY <1>2 DEF TypeOK, PopShutdownJob, Pop
    <3>2. Head(queue[g]) \in Job
      BY <3>1
    <3> QED
      BY <3>2, ShipperAssumption
  <2> QED
    BY <1>2, <2>1 DEF TypeOK, Control, ControlOf, PopShutdownJob, Pop, NeedsShutdown
<1>3. ASSUME PopWaits(g)
      PROVE  ControlOf(g)'
  BY <1>3 DEF TypeOK, Control, ControlOf, PopWaits, PopEnds
<1>4. ASSUME PopWakes(g)
      PROVE  ControlOf(g)'
  BY <1>4 DEF TypeOK, Control, ControlOf, PopWakes
<1>5. ASSUME ShutdownJob(g)
      PROVE  ControlOf(g)'
  <2>1. [job[g] EXCEPT !.shutdown = TRUE] # NoJob
    <3>1. job[g] \in Job
      BY <1>5, JobTyped DEF Control, ControlOf, ShutdownJob
    <3> QED
      BY <3>1, ShutdownJobTyped
  <2> QED
    BY <1>5, <2>1 DEF TypeOK, Control, ControlOf, ShutdownJob, SlotFree, StartShip
<1>6. ASSUME ShutdownBusy(g)
      PROVE  ControlOf(g)'
  BY <1>6 DEF TypeOK, Control, ControlOf, ShutdownBusy, SlotFree
<1>7. ASSUME DropQueued(g)
      PROVE  ControlOf(g)'
  BY <1>7 DEF TypeOK, Control, ControlOf, DropQueued
<1>8. ASSUME ShipRequeue(g)
      PROVE  ControlOf(g)'
  <2>1. ship[g] = "ship" /\ ship'[g] = "pop" /\ job'[g] = NoJob
    BY <1>8 DEF TypeOK, ShipRequeue, AfterShip
  <2>2. try'[g]["ship"] = "idle" /\ try'[g]["work"] = try[g]["work"]
    BY <1>8 DEF TypeOK, ShipRequeue, AfterShip, EndShip
  <2>3. UNCHANGED <<flush, stop, tickDone, ready, closed, acc, work, pending>>
    BY <1>8 DEF ShipRequeue, AfterShip, pushFront
  <2> QED
    BY <2>1, <2>2, <2>3 DEF Control, ControlOf
<1>9. ASSUME ShipSettle(g)
      PROVE  ControlOf(g)'
  BY <1>9 DEF TypeOK, Control, ControlOf, ShipSettle, AfterShip, Requeues, EndShip, Returned
<1>10. ASSUME ShipExit(g)
      PROVE  ControlOf(g)'
  BY <1>10 DEF TypeOK, Control, ControlOf, ShipExit, PopEnds
<1>11. ASSUME shipWithRetryWait(g, "ship")
      PROVE  ControlOf(g)'
  BY <1>11, ControlPost
<1> QED
  BY <1>1, <1>2, <1>3, <1>4, <1>5, <1>6, <1>7, <1>8, <1>9, <1>10, <1>11 DEF shipLoop, Poster

(* Control: the steps of deliverRetiredHTTP. *)
LEMMA ControlWork ==
    ASSUME TypeOK, Control,
           NEW g \in Gen, deliverRetiredHTTP(g)
    PROVE  ControlOf(g)'
<1> USE DEF drainVars, queueVars, postVars, ingestVars, shipVars, stopVars, workVars,
   Poster, Drainer
<1>1. ASSUME WorkCheck(g)
      PROVE  ControlOf(g)'
  BY <1>1 DEF TypeOK, Control, ControlOf, WorkCheck
<1>2. ASSUME WorkWait(g)
      PROVE  ControlOf(g)'
  <2>1. flush[g] = "done" /\ work[g] = "wait" /\ work'[g] = "drain"
    BY <1>2 DEF TypeOK, WorkWait, WgDone
  <2> QED
    BY <1>2, <2>1 DEF Control, ControlOf, WorkWait
<1>3. ASSUME NEW t \in Track, DrainTrack(g, "work", t)
      PROVE  ControlOf(g)'
  BY <1>3 DEF TypeOK, Control, ControlOf, DrainTrack, Draining, RowsOf
<1>4. ASSUME WorkEncode(g)
      PROVE  ControlOf(g)'
  BY <1>4 DEF TypeOK, Control, ControlOf, WorkEncode
<1>5. ASSUME WorkEncodeFails(g)
      PROVE  ControlOf(g)'
  BY <1>5 DEF TypeOK, Control, ControlOf, WorkEncodeFails, WorkEnds
<1>6. ASSUME WorkBusy(g)
      PROVE  ControlOf(g)'
  BY <1>6 DEF TypeOK, Control, ControlOf, WorkBusy, WorkEnds, SlotFree
<1>7. ASSUME WorkShip(g)
      PROVE  ControlOf(g)'
  BY <1>7 DEF TypeOK, Control, ControlOf, WorkShip, SlotFree, StartShip
<1>8. ASSUME WorkSettle(g)
      PROVE  ControlOf(g)'
  BY <1>8 DEF TypeOK, Control, ControlOf, WorkSettle, WorkEnds, EndShip, Returned
<1>9. ASSUME shipWithRetryWait(g, "work")
      PROVE  ControlOf(g)'
  BY <1>9, ControlPost
<1> QED
  BY <1>1, <1>2, <1>3, <1>4, <1>5, <1>6, <1>7, <1>8, <1>9
     DEF deliverRetiredHTTP, Poster, Drainer

(* Every step keeps the goroutines of a generation in step. *)
LEMMA ControlStep ==
    ASSUME TypeOK, Control, Next
    PROVE  Control'
<1>1. ASSUME NEW g \in Gen, Generation(g)
      PROVE  Control'
  <2>1. ControlOf(g)'
    BY <1>1, ControlRequests, ControlFlush, ControlPost, ControlShip, ControlWork
       DEF Generation
  <2>2. ASSUME NEW k \in Gen, k # g
        PROVE  ControlOf(k)'
    BY <1>1, <2>2, OneGenerationSteps, ControlFrame DEF Control
  <2> QED
    BY <2>1, <2>2 DEF Control
<1>2. CASE UNCHANGED vars
  <2>1. ASSUME NEW k \in Gen
        PROVE  ControlOf(k)'
    BY <1>2, UnchangedIsSame, ControlFrame DEF Control
  <2> QED
    BY <2>1 DEF Control
<1> QED
  BY <1>1, <1>2 DEF Next, Terminated

-----------------------------------------------------------------------------
(* Late rows concern only the generation that steps. *)
LEMMA AwaitedFrame ==
    ASSUME NEW k \in Gen, AwaitedOf(k), Same(k)
    PROVE  AwaitedOf(k)'
  BY DEF Same, AwaitedOf, httpRetired, Http

(* Awaited: the steps of a request, Start or Stop. *)
LEMMA AwaitedRequests ==
    ASSUME TypeOK, Control, LateRowsAwaited,
           NEW g \in Gen, Requests(g) \/ Start(g) \/ StopBegin(g) \/ StopReturn(g)
    PROVE  AwaitedOf(g)'
<1> USE DEF drainVars, queueVars, postVars, ingestVars, shipVars, stopVars, workVars,
   Poster, Drainer
<1>1. ASSUME NEW r \in Row, Record(g, r)
      PROVE  AwaitedOf(g)'
  BY <1>1, ShipperAssumption
     DEF TypeOK, LateRowsAwaited, AwaitedOf, Record, Http, httpRetired
<1>2. ASSUME NEW r \in Row, finishHTTPRecord(g, r)
      PROVE  AwaitedOf(g)'
  BY ZenonT(30), <1>2, ShipperAssumption
     DEF TypeOK, LateRowsAwaited, AwaitedOf, finishHTTPRecord, httpRetired,
     scheduleHTTPDelivery, Http
<1>3. ASSUME Start(g)
      PROVE  AwaitedOf(g)'
  <2>1. UNCHANGED <<stop, req, buf, pending, work, todo>>
    BY <1>3 DEF Start
  <2> QED
    BY <2>1 DEF LateRowsAwaited, AwaitedOf, httpRetired, Http
<1>4. ASSUME StopBegin(g)
      PROVE  AwaitedOf(g)'
  BY <1>4, ShipperAssumption
     DEF TypeOK, LateRowsAwaited, AwaitedOf, StopBegin, httpRetired, Http
<1>5. ASSUME StopReturn(g)
      PROVE  AwaitedOf(g)'
  BY ZenonT(30), <1>5, ShipperAssumption
     DEF TypeOK, LateRowsAwaited, AwaitedOf, StopReturn, scheduleHTTPDelivery,
     httpRetired, Http
<1> QED
  BY <1>1, <1>2, <1>3, <1>4, <1>5 DEF Requests

(* Awaited: the steps of flushLoop. *)
LEMMA AwaitedFlush ==
    ASSUME TypeOK, Control, LateRowsAwaited,
           NEW g \in Gen, flushLoop(g)
    PROVE  AwaitedOf(g)'
<1> USE DEF drainVars, queueVars, postVars, ingestVars, shipVars, stopVars, workVars,
   Poster, Drainer
<1>1. ASSUME FlushTick(g)
      PROVE  AwaitedOf(g)'
  BY <1>1, ShipperAssumption
     DEF TypeOK, LateRowsAwaited, AwaitedOf, FlushTick, httpRetired, Http
<1>2. ASSUME FlushStop(g)
      PROVE  AwaitedOf(g)'
  <2>1. UNCHANGED <<stop, req, buf, pending, work, todo>>
    BY <1>2 DEF FlushStop
  <2> QED
    BY <2>1 DEF LateRowsAwaited, AwaitedOf, httpRetired, Http
<1>3. ASSUME beginShutdownShipping(g)
      PROVE  AwaitedOf(g)'
  BY <1>3, ShipperAssumption
     DEF TypeOK, LateRowsAwaited, AwaitedOf, beginShutdownShipping, httpRetired, Http
<1>4. ASSUME NEW t \in Track, DrainTrack(g, "flush", t)
      PROVE  AwaitedOf(g)'
  <2>1. buf'[g] = buf[g] \ RowsOf(t) /\ todo'[g]["flush"] = todo[g]["flush"] \ {t}
    BY <1>4 DEF TypeOK, DrainTrack
  <2>2. todo'[g]["work"] = todo[g]["work"] \/ todo'[g]["work"] = todo[g]["work"] \ {t}
    BY <1>4 DEF TypeOK, DrainTrack
  <2>3. UNCHANGED <<stop, req, pending, work>>
    BY <1>4 DEF DrainTrack
  <2>4. \A x \in buf'[g] : x \in buf[g] /\ TrackOf[x] # t
    BY <2>1 DEF TypeOK, RowsOf
  <2> QED
    BY <2>1, <2>2, <2>3, <2>4 DEF LateRowsAwaited, AwaitedOf, httpRetired, Http
<1>5. ASSUME FlushEmpty(g)
      PROVE  AwaitedOf(g)'
  <2>1. UNCHANGED <<stop, req, buf, pending, work, todo>>
    BY <1>5 DEF FlushEmpty
  <2> QED
    BY <2>1 DEF LateRowsAwaited, AwaitedOf, httpRetired, Http
<1>6. ASSUME FlushEncode(g)
      PROVE  AwaitedOf(g)'
  <2>1. UNCHANGED <<stop, req, buf, pending, work, todo>>
    BY <1>6 DEF FlushEncode
  <2> QED
    BY <2>1 DEF LateRowsAwaited, AwaitedOf, httpRetired, Http
<1>7. ASSUME FlushEncodeFails(g)
      PROVE  AwaitedOf(g)'
  <2>1. UNCHANGED <<stop, req, buf, pending, work, todo>>
    BY <1>7 DEF FlushEncodeFails
  <2> QED
    BY <2>1 DEF LateRowsAwaited, AwaitedOf, httpRetired, Http
<1>8. ASSUME enqueueShip(g)
      PROVE  AwaitedOf(g)'
  <2>1. UNCHANGED <<stop, req, buf, pending, work, todo>>
    BY <1>8 DEF enqueueShip
  <2> QED
    BY <2>1 DEF LateRowsAwaited, AwaitedOf, httpRetired, Http
<1>9. ASSUME closeQueue(g)
      PROVE  AwaitedOf(g)'
  <2>1. UNCHANGED <<stop, req, buf, pending, work, todo>>
    BY <1>9 DEF closeQueue
  <2> QED
    BY <2>1 DEF LateRowsAwaited, AwaitedOf, httpRetired, Http
<1> QED
  BY <1>1, <1>2, <1>3, <1>4, <1>5, <1>6, <1>7, <1>8, <1>9 DEF flushLoop, Drainer

(* Awaited: the steps of shipWithRetryWait or a deadline. *)
LEMMA AwaitedPost ==
    ASSUME TypeOK, Control, LateRowsAwaited,
           NEW g \in Gen, NEW w \in Poster, shipWithRetryWait(g, w) \/ Expire(g, w)
    PROVE  AwaitedOf(g)'
<1> USE DEF drainVars, queueVars, postVars, ingestVars, shipVars, stopVars, workVars,
   Poster, Drainer
<1>1. ASSUME Expire(g, w)
      PROVE  AwaitedOf(g)'
  <2>1. UNCHANGED <<stop, req, buf, pending, work, todo>>
    BY <1>1 DEF Expire
  <2> QED
    BY <2>1 DEF LateRowsAwaited, AwaitedOf, httpRetired, Http
<1>2. ASSUME Attempt(g, w)
      PROVE  AwaitedOf(g)'
  <2>1. UNCHANGED <<stop, req, buf, pending, work, todo>>
    BY <1>2 DEF Attempt
  <2> QED
    BY <2>1 DEF LateRowsAwaited, AwaitedOf, httpRetired, Http
<1>3. ASSUME try[g][w] = "post", PostOk(g, w)
      PROVE  AwaitedOf(g)'
  <2>1. UNCHANGED <<stop, req, buf, pending, work, todo>>
    BY <1>3 DEF PostOk, PostEnds
  <2> QED
    BY <2>1 DEF LateRowsAwaited, AwaitedOf, httpRetired, Http
<1>4. ASSUME try[g][w] = "post", PostRefused(g, w)
      PROVE  AwaitedOf(g)'
  <2>1. UNCHANGED <<stop, req, buf, pending, work, todo>>
    BY <1>4 DEF PostRefused, PostEnds
  <2> QED
    BY <2>1 DEF LateRowsAwaited, AwaitedOf, httpRetired, Http
<1>5. ASSUME NEW taken \in {{}, Body(g, w)}, try[g][w] = "post", PostFails(g, w, taken)
      PROVE  AwaitedOf(g)'
  <2>1. UNCHANGED <<stop, req, buf, pending, work, todo>>
    BY <1>5 DEF PostFails, PostEnds
  <2> QED
    BY <2>1 DEF LateRowsAwaited, AwaitedOf, httpRetired, Http
<1>6. ASSUME NEW taken \in {{}, Body(g, w)}, try[g][w] = "post", PostCut(g, w, taken)
      PROVE  AwaitedOf(g)'
  <2>1. UNCHANGED <<stop, req, buf, pending, work, todo>>
    BY <1>6 DEF PostCut, PostEnds
  <2> QED
    BY <2>1 DEF LateRowsAwaited, AwaitedOf, httpRetired, Http
<1>7. ASSUME BackoffOver(g, w)
      PROVE  AwaitedOf(g)'
  <2>1. UNCHANGED <<stop, req, buf, pending, work, todo>>
    BY <1>7 DEF BackoffOver
  <2> QED
    BY <2>1 DEF LateRowsAwaited, AwaitedOf, httpRetired, Http
<1>8. ASSUME BackoffCut(g, w)
      PROVE  AwaitedOf(g)'
  <2>1. UNCHANGED <<stop, req, buf, pending, work, todo>>
    BY <1>8 DEF BackoffCut
  <2> QED
    BY <2>1 DEF LateRowsAwaited, AwaitedOf, httpRetired, Http
<1> QED
  BY <1>1, <1>2, <1>3, <1>4, <1>5, <1>6, <1>7, <1>8 DEF shipWithRetryWait, PostReturns

(* Awaited: the steps of shipLoop. *)
LEMMA AwaitedShip ==
    ASSUME TypeOK, Control, LateRowsAwaited,
           NEW g \in Gen, shipLoop(g)
    PROVE  AwaitedOf(g)'
<1> USE DEF drainVars, queueVars, postVars, ingestVars, shipVars, stopVars, workVars,
   Poster, Drainer
<1>1. ASSUME PopTickJob(g)
      PROVE  AwaitedOf(g)'
  <2>1. UNCHANGED <<stop, req, buf, pending, work, todo>>
    BY <1>1 DEF PopTickJob, Pop
  <2> QED
    BY <2>1 DEF LateRowsAwaited, AwaitedOf, httpRetired, Http
<1>2. ASSUME PopShutdownJob(g)
      PROVE  AwaitedOf(g)'
  <2>1. UNCHANGED <<stop, req, buf, pending, work, todo>>
    BY <1>2 DEF PopShutdownJob, Pop
  <2> QED
    BY <2>1 DEF LateRowsAwaited, AwaitedOf, httpRetired, Http
<1>3. ASSUME PopWaits(g)
      PROVE  AwaitedOf(g)'
  <2>1. UNCHANGED <<stop, req, buf, pending, work, todo>>
    BY <1>3 DEF PopWaits
  <2> QED
    BY <2>1 DEF LateRowsAwaited, AwaitedOf, httpRetired, Http
<1>4. ASSUME PopWakes(g)
      PROVE  AwaitedOf(g)'
  <2>1. UNCHANGED <<stop, req, buf, pending, work, todo>>
    BY <1>4 DEF PopWakes
  <2> QED
    BY <2>1 DEF LateRowsAwaited, AwaitedOf, httpRetired, Http
<1>5. ASSUME ShutdownJob(g)
      PROVE  AwaitedOf(g)'
  <2>1. UNCHANGED <<stop, req, buf, pending, work, todo>>
    BY <1>5 DEF ShutdownJob
  <2> QED
    BY <2>1 DEF LateRowsAwaited, AwaitedOf, httpRetired, Http
<1>6. ASSUME ShutdownBusy(g)
      PROVE  AwaitedOf(g)'
  <2>1. UNCHANGED <<stop, req, buf, pending, work, todo>>
    BY <1>6 DEF ShutdownBusy
  <2> QED
    BY <2>1 DEF LateRowsAwaited, AwaitedOf, httpRetired, Http
<1>7. ASSUME DropQueued(g)
      PROVE  AwaitedOf(g)'
  <2>1. UNCHANGED <<stop, req, buf, pending, work, todo>>
    BY <1>7 DEF DropQueued
  <2> QED
    BY <2>1 DEF LateRowsAwaited, AwaitedOf, httpRetired, Http
<1>8. ASSUME ShipRequeue(g)
      PROVE  AwaitedOf(g)'
  <2>1. UNCHANGED <<stop, req, buf, pending, work, todo>>
    BY <1>8 DEF ShipRequeue, AfterShip
  <2> QED
    BY <2>1 DEF LateRowsAwaited, AwaitedOf, httpRetired, Http
<1>9. ASSUME ShipSettle(g)
      PROVE  AwaitedOf(g)'
  <2>1. UNCHANGED <<stop, req, buf, pending, work, todo>>
    BY <1>9 DEF ShipSettle, AfterShip
  <2> QED
    BY <2>1 DEF LateRowsAwaited, AwaitedOf, httpRetired, Http
<1>10. ASSUME ShipExit(g)
      PROVE  AwaitedOf(g)'
  <2>1. UNCHANGED <<stop, req, buf, pending, work, todo>>
    BY <1>10 DEF ShipExit
  <2> QED
    BY <2>1 DEF LateRowsAwaited, AwaitedOf, httpRetired, Http
<1>11. ASSUME shipWithRetryWait(g, "ship")
      PROVE  AwaitedOf(g)'
  BY <1>11, AwaitedPost
<1> QED
  BY <1>1, <1>2, <1>3, <1>4, <1>5, <1>6, <1>7, <1>8, <1>9, <1>10, <1>11 DEF shipLoop, Poster

(* Awaited: the steps of deliverRetiredHTTP. *)
LEMMA AwaitedWork ==
    ASSUME TypeOK, Control, LateRowsAwaited,
           NEW g \in Gen, deliverRetiredHTTP(g)
    PROVE  AwaitedOf(g)'
<1> USE DEF drainVars, queueVars, postVars, ingestVars, shipVars, stopVars, workVars,
   Poster, Drainer
<1>1. ASSUME WorkCheck(g)
      PROVE  AwaitedOf(g)'
  BY ZenonT(30), <1>1, ShipperAssumption
     DEF TypeOK, LateRowsAwaited, AwaitedOf, WorkCheck, httpRetired, Http
<1>2. ASSUME WorkWait(g)
      PROVE  AwaitedOf(g)'
  BY <1>2, ShipperAssumption
     DEF TypeOK, LateRowsAwaited, AwaitedOf, WorkWait, httpRetired, Http
<1>3. ASSUME NEW t \in Track, DrainTrack(g, "work", t)
      PROVE  AwaitedOf(g)'
  <2>1. buf'[g] = buf[g] \ RowsOf(t) /\ todo'[g]["work"] = todo[g]["work"] \ {t}
    BY <1>3 DEF TypeOK, DrainTrack
  <2>2. todo'[g]["work"] = todo[g]["work"] \/ todo'[g]["work"] = todo[g]["work"] \ {t}
    BY <1>3 DEF TypeOK, DrainTrack
  <2>3. UNCHANGED <<stop, req, pending, work>>
    BY <1>3 DEF DrainTrack
  <2>4. \A x \in buf'[g] : x \in buf[g] /\ TrackOf[x] # t
    BY <2>1 DEF TypeOK, RowsOf
  <2> QED
    BY <2>1, <2>2, <2>3, <2>4 DEF LateRowsAwaited, AwaitedOf, httpRetired, Http
<1>4. ASSUME WorkEncode(g)
      PROVE  AwaitedOf(g)'
  BY ZenonT(30), <1>4, ShipperAssumption
     DEF TypeOK, LateRowsAwaited, AwaitedOf, WorkEncode, httpRetired, Http
<1>5. ASSUME WorkEncodeFails(g)
      PROVE  AwaitedOf(g)'
  BY ZenonT(30), <1>5, ShipperAssumption
     DEF TypeOK, LateRowsAwaited, AwaitedOf, WorkEncodeFails, WorkEnds, httpRetired, Http
<1>6. ASSUME WorkBusy(g)
      PROVE  AwaitedOf(g)'
  BY ZenonT(30), <1>6, ShipperAssumption
     DEF TypeOK, LateRowsAwaited, AwaitedOf, WorkBusy, WorkEnds, httpRetired, Http
<1>7. ASSUME WorkShip(g)
      PROVE  AwaitedOf(g)'
  BY ZenonT(30), <1>7, ShipperAssumption
     DEF TypeOK, LateRowsAwaited, AwaitedOf, WorkShip, httpRetired, Http
<1>8. ASSUME WorkSettle(g)
      PROVE  AwaitedOf(g)'
  BY ZenonT(30), <1>8, ShipperAssumption
     DEF TypeOK, LateRowsAwaited, AwaitedOf, WorkSettle, WorkEnds, httpRetired, Http
<1>9. ASSUME shipWithRetryWait(g, "work")
      PROVE  AwaitedOf(g)'
  BY <1>9, AwaitedPost
<1> QED
  BY <1>1, <1>2, <1>3, <1>4, <1>5, <1>6, <1>7, <1>8, <1>9
     DEF deliverRetiredHTTP, Poster, Drainer

(* Every step keeps a drain ahead of every late HTTP row. *)
LEMMA AwaitedStep ==
    ASSUME TypeOK, Control, LateRowsAwaited, Next
    PROVE  LateRowsAwaited'
<1>1. ASSUME NEW g \in Gen, Generation(g)
      PROVE  LateRowsAwaited'
  <2>1. AwaitedOf(g)'
    BY <1>1, AwaitedRequests, AwaitedFlush, AwaitedPost, AwaitedShip, AwaitedWork
       DEF Generation
  <2>2. ASSUME NEW k \in Gen, k # g
        PROVE  AwaitedOf(k)'
    BY <1>1, <2>2, OneGenerationSteps, AwaitedFrame DEF LateRowsAwaited
  <2> QED
    BY <2>1, <2>2 DEF LateRowsAwaited
<1>2. CASE UNCHANGED vars
  <2>1. ASSUME NEW k \in Gen
        PROVE  AwaitedOf(k)'
    BY <1>2, UnchangedIsSame, AwaitedFrame DEF LateRowsAwaited
  <2> QED
    BY <2>1 DEF LateRowsAwaited
<1> QED
  BY <1>1, <1>2 DEF Next, Terminated
=============================================================================
