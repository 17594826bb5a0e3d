---------------------------- MODULE ShipperTypes ----------------------------
(***************************************************************************)
(* For any number of generations, rows, tracks, slots and retries: every   *)
(* step of Shipper keeps the types. One lemma per activity, with one case  *)
(* per action.                                                             *)
(***************************************************************************)
EXTENDS ShipperFrames, FiniteSetTheorems

(* Each leaf is tried with SMT, then with Zenon. *)
USE SMTT(30), ZenonT(30)

(* Deciding the fate of a batch keeps every fate one of the known ones. *)
LEMMA SettleTyped ==
    ASSUME TypeOK, NEW g \in Gen, NEW rows, NEW f \in Fate, Settle(g, rows, f)
    PROVE  fate' \in [Gen -> [Row -> Fate]]
<1>1. fate \in [Gen -> [Row -> Fate]]
  BY DEF TypeOK
<1>2. [r \in Row |-> IF r \in rows THEN f ELSE fate[g][r]] \in [Row -> Fate]
  BY <1>1
<1> QED
  BY <1>1, <1>2 DEF Settle

(* Type: the steps of a request, Start or Stop. *)
LEMMA TypeRequests ==
    ASSUME TypeOK, Control, slots' \in Nat,
           NEW g \in Gen, Requests(g) \/ Start(g) \/ StopBegin(g) \/ StopReturn(g)
    PROVE  TypeOK'
<1> USE DEF drainVars, queueVars, postVars, ingestVars, shipVars, stopVars, workVars,
   Poster, Drainer, Fate, Dropped
<1>1. ASSUME NEW r \in Row, Record(g, r)
      PROVE  TypeOK'
  BY <1>1 DEF TypeOK, Record, Http
<1>2. ASSUME NEW r \in Row, finishHTTPRecord(g, r)
      PROVE  TypeOK'
  BY <1>2 DEF TypeOK, finishHTTPRecord, httpRetired, scheduleHTTPDelivery
<1>3. ASSUME Start(g)
      PROVE  TypeOK'
  BY <1>3 DEF TypeOK, Start
<1>4. ASSUME StopBegin(g)
      PROVE  TypeOK'
  BY <1>4 DEF TypeOK, StopBegin
<1>5. ASSUME StopReturn(g)
      PROVE  TypeOK'
  BY <1>5 DEF TypeOK, StopReturn, scheduleHTTPDelivery
<1> QED
  BY <1>1, <1>2, <1>3, <1>4, <1>5 DEF Requests

(* Type: the steps of flushLoop. *)
LEMMA TypeFlush ==
    ASSUME TypeOK, Control, slots' \in Nat,
           NEW g \in Gen, flushLoop(g)
    PROVE  TypeOK'
<1> USE DEF drainVars, queueVars, postVars, ingestVars, shipVars, stopVars, workVars,
   Poster, Drainer, Fate, Dropped
<1>1. ASSUME FlushTick(g)
      PROVE  TypeOK'
  BY <1>1 DEF TypeOK, FlushTick
<1>2. ASSUME FlushStop(g)
      PROVE  TypeOK'
  BY <1>2 DEF TypeOK, FlushStop
<1>3. ASSUME beginShutdownShipping(g)
      PROVE  TypeOK'
  BY <1>3 DEF TypeOK, beginShutdownShipping
<1>4. ASSUME NEW t \in Track, DrainTrack(g, "flush", t)
      PROVE  TypeOK'
  BY <1>4 DEF TypeOK, DrainTrack, Draining, RowsOf
<1>5. ASSUME FlushEmpty(g)
      PROVE  TypeOK'
  BY <1>5 DEF TypeOK, FlushEmpty, AfterEnqueue
<1>6. ASSUME FlushEncode(g)
      PROVE  TypeOK'
  BY <1>6 DEF TypeOK, FlushEncode
<1>7. ASSUME FlushEncodeFails(g)
      PROVE  TypeOK'
  <2>1. flush' \in [Gen -> {"off", "idle", "begin", "drain", "push", "close", "done"}]
    BY <1>7 DEF TypeOK, FlushEncodeFails, AfterEnqueue, Settle
  <2>2. acc' \in [Gen -> [Drainer -> SUBSET Row]]
    BY <1>7 DEF TypeOK, FlushEncodeFails, AfterEnqueue, Settle
  <2>3. fate' \in [Gen -> [Row -> Fate]]
    BY <1>7, SettleTyped DEF FlushEncodeFails
  <2> QED
    BY <1>7, <2>1, <2>2, <2>3 DEF TypeOK, FlushEncodeFails
<1>8. ASSUME enqueueShip(g)
      PROVE  TypeOK'
  <2>1. queue' \in [Gen -> Seq(Job)]
    <3>1. queue[g] \in Seq(Job) /\ (QueueFull(g) => queue[g] # <<>>)
      BY ShipperAssumption DEF TypeOK, QueueFull
    <3>2. [rows |-> acc[g]["flush"], shutdown |-> ready[g], seq |-> seq[g]] \in Job
      BY DEF TypeOK, Job
    <3>3. (IF QueueFull(g) THEN Tail(queue[g]) ELSE queue[g]) \in Seq(Job)
      BY <3>1
    <3> QED
      BY <1>8, <3>2, <3>3 DEF enqueueShip, TypeOK
  <2>2. notify' \in [Gen -> BOOLEAN]
    BY <1>8 DEF TypeOK, enqueueShip, AfterEnqueue, Settle, QueueFull, EvictedRows, Signal
  <2>3. fate' \in [Gen -> [Row -> Fate]]
    BY <1>8, SettleTyped DEF enqueueShip
  <2>4. acc' \in [Gen -> [Drainer -> SUBSET Row]]
    BY <1>8 DEF TypeOK, enqueueShip, AfterEnqueue, Settle, QueueFull, EvictedRows, Signal
  <2>5. flush' \in [Gen -> {"off", "idle", "begin", "drain", "push", "close", "done"}]
    BY <1>8 DEF TypeOK, enqueueShip, AfterEnqueue, Settle, QueueFull, EvictedRows, Signal
  <2> QED
    BY <1>8, <2>1, <2>2, <2>3, <2>4, <2>5 DEF TypeOK, enqueueShip
<1>9. ASSUME closeQueue(g)
      PROVE  TypeOK'
  BY <1>9 DEF TypeOK, closeQueue, Signal
<1> QED
  BY <1>1, <1>2, <1>3, <1>4, <1>5, <1>6, <1>7, <1>8, <1>9 DEF flushLoop, Drainer

(* Type: the steps of shipWithRetryWait or a deadline. *)
LEMMA TypePost ==
    ASSUME TypeOK, Control, slots' \in Nat,
           NEW g \in Gen, NEW w \in Poster, shipWithRetryWait(g, w) \/ Expire(g, w)
    PROVE  TypeOK'
<1> USE DEF drainVars, queueVars, postVars, ingestVars, shipVars, stopVars, workVars,
   Poster, Drainer, Fate, Dropped
<1>1. ASSUME Expire(g, w)
      PROVE  TypeOK'
  BY <1>1 DEF TypeOK, Expire
<1>2. ASSUME Attempt(g, w)
      PROVE  TypeOK'
  BY <1>2 DEF TypeOK, Attempt, WaitDone
<1>3. ASSUME try[g][w] = "post", PostOk(g, w)
      PROVE  TypeOK'
  <2>1. try' \in [Gen -> [Poster -> {"idle", "check", "post", "backoff", "ok", "permanent", "failed"}]]
    BY <1>3 DEF TypeOK, PostOk, PostEnds, IngestTakes, Body
  <2>2. seen' \in [Gen -> SUBSET Row]
    BY <1>3, BodyTyped DEF TypeOK, PostOk, PostEnds, IngestTakes
  <2>3. doubled' \in [Gen -> SUBSET Row]
    BY <1>3, BodyTyped DEF TypeOK, PostOk, PostEnds, IngestTakes
  <2> QED
    BY <1>3, <2>1, <2>2, <2>3 DEF TypeOK, PostOk, PostEnds
<1>4. ASSUME try[g][w] = "post", PostRefused(g, w)
      PROVE  TypeOK'
  BY <1>4 DEF TypeOK, PostRefused, PostEnds, IngestTakes, Body
<1>5. ASSUME NEW taken \in {{}, Body(g, w)}, try[g][w] = "post", PostFails(g, w, taken)
      PROVE  TypeOK'
  <2>1. try' \in [Gen -> [Poster -> {"idle", "check", "post", "backoff", "ok", "permanent", "failed"}]]
    BY <1>5 DEF TypeOK, PostFails, PostEnds, IngestTakes, Body, CtxDone, RetriesSpent
  <2>2. left' \in [Gen -> [Poster -> Nat]]
    BY <1>5 DEF TypeOK, PostFails, PostEnds, IngestTakes, Body, CtxDone, RetriesSpent
  <2>3. seen' \in [Gen -> SUBSET Row]
    BY <1>5, BodyTyped DEF TypeOK, PostFails, PostEnds, IngestTakes
  <2>4. doubled' \in [Gen -> SUBSET Row]
    BY <1>5, BodyTyped DEF TypeOK, PostFails, PostEnds, IngestTakes
  <2>5. unsure' \in [Gen -> SUBSET Row]
    BY <1>5, BodyTyped DEF TypeOK, PostFails, PostEnds, IngestTakes
  <2> QED
    BY <1>5, <2>1, <2>2, <2>3, <2>4, <2>5 DEF TypeOK, PostFails, PostEnds
<1>6. ASSUME NEW taken \in {{}, Body(g, w)}, try[g][w] = "post", PostCut(g, w, taken)
      PROVE  TypeOK'
  <2>1. try' \in [Gen -> [Poster -> {"idle", "check", "post", "backoff", "ok", "permanent", "failed"}]]
    BY <1>6 DEF TypeOK, PostCut, PostEnds, IngestTakes, Body, CtxDone
  <2>2. seen' \in [Gen -> SUBSET Row]
    BY <1>6, BodyTyped DEF TypeOK, PostCut, PostEnds, IngestTakes
  <2>3. doubled' \in [Gen -> SUBSET Row]
    BY <1>6, BodyTyped DEF TypeOK, PostCut, PostEnds, IngestTakes
  <2> QED
    BY <1>6, <2>1, <2>2, <2>3 DEF TypeOK, PostCut, PostEnds
<1>7. ASSUME BackoffOver(g, w)
      PROVE  TypeOK'
  BY ZenonT(30), <1>7 DEF TypeOK, BackoffOver
<1>8. ASSUME BackoffCut(g, w)
      PROVE  TypeOK'
  BY <1>8 DEF TypeOK, BackoffCut, CtxDone, WaitDone
<1> QED
  BY <1>1, <1>2, <1>3, <1>4, <1>5, <1>6, <1>7, <1>8 DEF shipWithRetryWait, PostReturns

(* Type: the steps of shipLoop. *)
LEMMA TypeShip ==
    ASSUME TypeOK, Control, slots' \in Nat,
           NEW g \in Gen, shipLoop(g)
    PROVE  TypeOK'
<1> USE DEF drainVars, queueVars, postVars, ingestVars, shipVars, stopVars, workVars,
   Poster, Drainer, Fate, Dropped
<1>1. ASSUME PopTickJob(g)
      PROVE  TypeOK'
  <2>1. job' \in [Gen -> Job \cup {NoJob}]
    BY <1>1 DEF TypeOK, PopTickJob, Pop, StartShip, NeedsShutdown
  <2>2. queue' \in [Gen -> Seq(Job)]
    BY <1>1 DEF TypeOK, PopTickJob, Pop, StartShip, NeedsShutdown
  <2>3. ship' \in [Gen -> {"off", "pop", "wait", "ready", "ship", "dropq", "dropwait", "done"}]
    BY <1>1 DEF TypeOK, PopTickJob, Pop, StartShip, NeedsShutdown
  <2>4. try' \in [Gen -> [Poster -> {"idle", "check", "post", "backoff", "ok", "permanent", "failed"}]]
    BY <1>1 DEF TypeOK, PopTickJob, Pop, StartShip, NeedsShutdown
  <2>5. left' \in [Gen -> [Poster -> Nat]]
    BY <1>1, ShipperAssumption DEF TypeOK, PopTickJob, Pop, StartShip, NeedsShutdown
  <2>6. UNCHANGED <<req, drainVars, flush, closed, notify, slot, stopVars, expired,
                    workVars, fate, seq, ingestVars, requeued>>
    BY <1>1 DEF PopTickJob, Pop
  <2> QED
    BY ZenonT(30), <2>1, <2>2, <2>3, <2>4, <2>5, <2>6 DEF TypeOK
<1>2. ASSUME PopShutdownJob(g)
      PROVE  TypeOK'
  <2>1. job' \in [Gen -> Job \cup {NoJob}]
    BY <1>2 DEF TypeOK, PopShutdownJob, Pop, NeedsShutdown
  <2>2. queue' \in [Gen -> Seq(Job)]
    BY <1>2 DEF TypeOK, PopShutdownJob, Pop, NeedsShutdown
  <2>3. ship' \in [Gen -> {"off", "pop", "wait", "ready", "ship", "dropq", "dropwait", "done"}]
    BY <1>2 DEF TypeOK, PopShutdownJob, Pop, NeedsShutdown
  <2> QED
    BY <1>2, <2>1, <2>2, <2>3 DEF TypeOK, PopShutdownJob, Pop
<1>3. ASSUME PopWaits(g)
      PROVE  TypeOK'
  BY <1>3 DEF TypeOK, PopWaits, PopEnds
<1>4. ASSUME PopWakes(g)
      PROVE  TypeOK'
  BY <1>4 DEF TypeOK, PopWakes
<1>5. ASSUME ShutdownJob(g)
      PROVE  TypeOK'
  <2>1. job' \in [Gen -> Job \cup {NoJob}]
    <3>1. job[g] \in Job
      BY <1>5, JobTyped DEF Control, ControlOf, ShutdownJob
    <3> QED
      BY <1>5, <3>1, ShutdownJobTyped DEF TypeOK, ShutdownJob
  <2>2. slot' \in [Gen -> BOOLEAN]
    BY <1>5 DEF TypeOK, ShutdownJob, SlotFree, StartShip
  <2>3. ship' \in [Gen -> {"off", "pop", "wait", "ready", "ship", "dropq", "dropwait", "done"}]
    BY <1>5 DEF TypeOK, ShutdownJob, SlotFree, StartShip
  <2>4. try' \in [Gen -> [Poster -> {"idle", "check", "post", "backoff", "ok", "permanent", "failed"}]]
    BY <1>5 DEF TypeOK, ShutdownJob, SlotFree, StartShip
  <2>5. left' \in [Gen -> [Poster -> Nat]]
    BY <1>5, ShipperAssumption DEF TypeOK, ShutdownJob, SlotFree, StartShip
  <2> QED
    BY <1>5, <2>1, <2>2, <2>3, <2>4, <2>5 DEF TypeOK, ShutdownJob
<1>6. ASSUME ShutdownBusy(g)
      PROVE  TypeOK'
  <2>1. fate' \in [Gen -> [Row -> Fate]]
    BY <1>6, SettleTyped DEF ShutdownBusy
  <2>2. job' \in [Gen -> Job \cup {NoJob}]
    BY <1>6 DEF TypeOK, ShutdownBusy, SlotFree, Settle
  <2>3. ship' \in [Gen -> {"off", "pop", "wait", "ready", "ship", "dropq", "dropwait", "done"}]
    BY <1>6 DEF TypeOK, ShutdownBusy, SlotFree, Settle
  <2> QED
    BY <1>6, <2>1, <2>2, <2>3 DEF TypeOK, ShutdownBusy
<1>7. ASSUME DropQueued(g)
      PROVE  TypeOK'
  <2>1. fate' \in [Gen -> [Row -> Fate]]
    BY <1>7, SettleTyped DEF DropQueued
  <2>2. queue' \in [Gen -> Seq(Job)]
    BY <1>7 DEF TypeOK, DropQueued
  <2>3. UNCHANGED <<req, drainVars, flush, closed, notify, shipVars, postVars, stopVars,
                    expired, workVars, seq, ingestVars, requeued>>
    BY <1>7 DEF DropQueued
  <2> QED
    BY ZenonT(30), <2>1, <2>2, <2>3 DEF TypeOK
<1>8. ASSUME ShipRequeue(g)
      PROVE  TypeOK'
  <2>1. queue' \in [Gen -> Seq(Job)]
    <3>1. job[g] \in Job
      BY <1>8, JobTyped DEF Control, ControlOf, ShipRequeue, AfterShip
    <3>2. queue[g] \in Seq(Job)
      BY DEF TypeOK
    <3>3. <<job[g]>> \o queue[g] \in Seq(Job)
      BY <3>1, <3>2
    <3> QED
      BY <1>8, <3>3 DEF TypeOK, ShipRequeue, pushFront
  <2>2. notify' \in [Gen -> BOOLEAN]
    BY <1>8 DEF TypeOK, ShipRequeue, AfterShip, Requeues, pushFront, Signal, EndShip,
       Returned
  <2>3. requeued' \in [Gen -> SUBSET Row]
    BY <1>8, JobTyped DEF TypeOK, Control, ControlOf, ShipRequeue, AfterShip
  <2>4. ship' \in [Gen -> {"off", "pop", "wait", "ready", "ship", "dropq", "dropwait", "done"}]
    BY <1>8 DEF TypeOK, ShipRequeue, AfterShip, Requeues, pushFront, Signal, EndShip,
       Returned
  <2>5. job' \in [Gen -> Job \cup {NoJob}]
    BY <1>8 DEF TypeOK, ShipRequeue, AfterShip, Requeues, pushFront, Signal, EndShip,
       Returned
  <2>6. try' \in [Gen -> [Poster -> {"idle", "check", "post", "backoff", "ok", "permanent", "failed"}]]
    BY <1>8 DEF TypeOK, ShipRequeue, AfterShip, Requeues, pushFront, Signal, EndShip,
       Returned
  <2>7. left' \in [Gen -> [Poster -> Nat]]
    BY <1>8 DEF TypeOK, ShipRequeue, AfterShip, Requeues, pushFront, Signal, EndShip,
       Returned
  <2> QED
    BY <1>8, <2>1, <2>2, <2>3, <2>4, <2>5, <2>6, <2>7 DEF TypeOK, ShipRequeue, AfterShip
<1>9. ASSUME ShipSettle(g)
      PROVE  TypeOK'
  <2>1. fate' \in [Gen -> [Row -> Fate]]
    <3>1. ShipResult(g, "ship") \in Fate
      BY DEF ShipResult
    <3> QED
      BY <1>9, <3>1, SettleTyped DEF ShipSettle
  <2>2. ship' \in [Gen -> {"off", "pop", "wait", "ready", "ship", "dropq", "dropwait", "done"}]
    BY <1>9 DEF TypeOK, ShipSettle, AfterShip, Requeues, Settle, ShipResult, EndShip,
       Returned
  <2>3. job' \in [Gen -> Job \cup {NoJob}]
    BY <1>9 DEF TypeOK, ShipSettle, AfterShip, Requeues, Settle, ShipResult, EndShip,
       Returned
  <2>4. try' \in [Gen -> [Poster -> {"idle", "check", "post", "backoff", "ok", "permanent", "failed"}]]
    BY <1>9 DEF TypeOK, ShipSettle, AfterShip, Requeues, Settle, ShipResult, EndShip,
       Returned
  <2>5. left' \in [Gen -> [Poster -> Nat]]
    BY <1>9 DEF TypeOK, ShipSettle, AfterShip, Requeues, Settle, ShipResult, EndShip,
       Returned
  <2> QED
    BY <1>9, <2>1, <2>2, <2>3, <2>4, <2>5 DEF TypeOK, ShipSettle, AfterShip
<1>10. ASSUME ShipExit(g)
      PROVE  TypeOK'
  <2>1. ship' \in [Gen -> {"off", "pop", "wait", "ready", "ship", "dropq", "dropwait", "done"}]
    BY <1>10 DEF TypeOK, ShipExit, PopEnds
  <2>2. slot' \in [Gen -> BOOLEAN]
    BY <1>10 DEF TypeOK, ShipExit, PopEnds
  <2>3. expired' \in [Gen -> [Poster -> BOOLEAN]]
    BY <1>10 DEF TypeOK, ShipExit, PopEnds
  <2> QED
    BY <1>10, <2>1, <2>2, <2>3 DEF TypeOK, ShipExit
<1>11. ASSUME shipWithRetryWait(g, "ship")
      PROVE  TypeOK'
  BY <1>11, TypePost
<1> QED
  BY <1>1, <1>2, <1>3, <1>4, <1>5, <1>6, <1>7, <1>8, <1>9, <1>10, <1>11 DEF shipLoop, Poster

(* Type: the steps of deliverRetiredHTTP. *)
LEMMA TypeWork ==
    ASSUME TypeOK, Control, slots' \in Nat,
           NEW g \in Gen, deliverRetiredHTTP(g)
    PROVE  TypeOK'
<1> USE DEF drainVars, queueVars, postVars, ingestVars, shipVars, stopVars, workVars,
   Poster, Drainer, Fate, Dropped
<1>1. ASSUME WorkCheck(g)
      PROVE  TypeOK'
  BY <1>1 DEF TypeOK, WorkCheck
<1>2. ASSUME WorkWait(g)
      PROVE  TypeOK'
  <2>1. work' \in [Gen -> {"off", "check", "wait", "drain", "slot", "ship"}]
    BY <1>2 DEF TypeOK, WorkWait, WgDone
  <2>2. todo' \in [Gen -> [Drainer -> SUBSET Track]]
    BY <1>2, ShipperAssumption DEF TypeOK, WorkWait, WgDone
  <2> QED
    BY <1>2, <2>1, <2>2 DEF TypeOK, WorkWait
<1>3. ASSUME NEW t \in Track, DrainTrack(g, "work", t)
      PROVE  TypeOK'
  BY <1>3 DEF TypeOK, DrainTrack, Draining, RowsOf
<1>4. ASSUME WorkEncode(g)
      PROVE  TypeOK'
  BY <1>4 DEF TypeOK, WorkEncode
<1>5. ASSUME WorkEncodeFails(g)
      PROVE  TypeOK'
  <2>1. acc' \in [Gen -> [Drainer -> SUBSET Row]]
    BY <1>5 DEF TypeOK, WorkEncodeFails, WorkEnds, Settle
  <2>2. fate' \in [Gen -> [Row -> Fate]]
    BY <1>5, SettleTyped DEF WorkEncodeFails, WorkEnds
  <2>3. work' \in [Gen -> {"off", "check", "wait", "drain", "slot", "ship"}]
    BY <1>5 DEF TypeOK, WorkEncodeFails, WorkEnds, Settle
  <2> QED
    BY <1>5, <2>1, <2>2, <2>3 DEF TypeOK, WorkEncodeFails
<1>6. ASSUME WorkBusy(g)
      PROVE  TypeOK'
  <2>1. acc' \in [Gen -> [Drainer -> SUBSET Row]]
    BY <1>6 DEF TypeOK, WorkBusy, WorkEnds, Settle, SlotFree
  <2>2. fate' \in [Gen -> [Row -> Fate]]
    BY <1>6, SettleTyped DEF WorkBusy, WorkEnds
  <2>3. work' \in [Gen -> {"off", "check", "wait", "drain", "slot", "ship"}]
    BY <1>6 DEF TypeOK, WorkBusy, WorkEnds, Settle, SlotFree
  <2> QED
    BY <1>6, <2>1, <2>2, <2>3 DEF TypeOK, WorkBusy
<1>7. ASSUME WorkShip(g)
      PROVE  TypeOK'
  <2>1. work' \in [Gen -> {"off", "check", "wait", "drain", "slot", "ship"}]
    BY <1>7 DEF TypeOK, WorkShip, SlotFree, StartShip
  <2>2. try' \in [Gen -> [Poster -> {"idle", "check", "post", "backoff", "ok", "permanent", "failed"}]]
    BY <1>7 DEF TypeOK, WorkShip, SlotFree, StartShip
  <2>3. left' \in [Gen -> [Poster -> Nat]]
    BY <1>7, ShipperAssumption DEF TypeOK, WorkShip, SlotFree, StartShip
  <2> QED
    BY <1>7, <2>1, <2>2, <2>3 DEF TypeOK, WorkShip
<1>8. ASSUME WorkSettle(g)
      PROVE  TypeOK'
  <2>1. acc' \in [Gen -> [Drainer -> SUBSET Row]]
    BY <1>8 DEF TypeOK, WorkSettle, WorkEnds, Settle, ShipResult, EndShip, Returned
  <2>2. fate' \in [Gen -> [Row -> Fate]]
    <3>1. ShipResult(g, "work") \in Fate
      BY DEF ShipResult
    <3> QED
      BY <1>8, <3>1, SettleTyped DEF WorkSettle, WorkEnds
  <2>3. work' \in [Gen -> {"off", "check", "wait", "drain", "slot", "ship"}]
    BY <1>8 DEF TypeOK, WorkSettle, WorkEnds, Settle, ShipResult, EndShip, Returned
  <2>4. try' \in [Gen -> [Poster -> {"idle", "check", "post", "backoff", "ok", "permanent", "failed"}]]
    BY <1>8 DEF TypeOK, WorkSettle, WorkEnds, Settle, ShipResult, EndShip, Returned
  <2>5. left' \in [Gen -> [Poster -> Nat]]
    BY <1>8 DEF TypeOK, WorkSettle, WorkEnds, Settle, ShipResult, EndShip, Returned
  <2>6. expired' \in [Gen -> [Poster -> BOOLEAN]]
    BY <1>8 DEF TypeOK, WorkSettle, WorkEnds, Settle, ShipResult, EndShip, Returned
  <2> QED
    BY <1>8, <2>1, <2>2, <2>3, <2>4, <2>5, <2>6 DEF TypeOK, WorkSettle
<1>9. ASSUME shipWithRetryWait(g, "work")
      PROVE  TypeOK'
  BY <1>9, TypePost
<1> QED
  BY <1>1, <1>2, <1>3, <1>4, <1>5, <1>6, <1>7, <1>8, <1>9
     DEF deliverRetiredHTTP, Poster, Drainer

(* Every step keeps the types. *)
LEMMA TypeStep ==
    ASSUME TypeOK, Control, slots' \in Nat, Next
    PROVE  TypeOK'
<1> USE DEF drainVars, queueVars, postVars, ingestVars, shipVars, stopVars, workVars,
   Poster, Drainer, Fate, Dropped
<1>1. CASE UNCHANGED vars
  BY <1>1 DEF TypeOK, vars
<1> QED
  BY <1>1, TypeRequests, TypeFlush, TypePost, TypeShip, TypeWork
     DEF Next, Generation, Terminated

-----------------------------------------------------------------------------
(* The slot holders are finitely many, so their number is a natural number. *)
LEMMA HoldersFinite == IsFiniteSet(SlotHolders)
<1>1. IsFiniteSet({"ship", "work"})
  <2>1. IsFiniteSet({"ship"}) /\ IsFiniteSet({"work"})
    BY ZenonT(30), FS_Singleton
  <2> QED
    BY ZenonT(30), <2>1, FS_Union, {"ship", "work"} = {"ship"} \cup {"work"}
<1>2. IsFiniteSet(Gen \X {"ship", "work"})
  BY <1>1, FS_Product, ShipperAssumption
<1>3. SlotHolders \subseteq Gen \X {"ship", "work"}
  BY DEF SlotHolders
<1> QED
  BY <1>2, <1>3, FS_Subset

(* Slot: the steps of a request, Start or Stop. *)
LEMMA SlotRequests ==
    ASSUME TypeOK, SlotAccounting,
           NEW g \in Gen, Requests(g) \/ Start(g) \/ StopBegin(g) \/ StopReturn(g)
    PROVE  SlotAccounting'
<1> USE DEF drainVars, queueVars, postVars, ingestVars, shipVars, stopVars, workVars, Poster
<1>1. ASSUME NEW r \in Row, Record(g, r)
      PROVE  SlotAccounting'
  BY <1>1 DEF SlotAccounting, SlotHolders, Record
<1>2. ASSUME NEW r \in Row, finishHTTPRecord(g, r)
      PROVE  SlotAccounting'
  <2>1. SlotHolders' = SlotHolders /\ slots' = slots
    BY <1>2 DEF SlotHolders, TypeOK, finishHTTPRecord, scheduleHTTPDelivery
  <2> QED
    BY <2>1 DEF SlotAccounting
<1>3. ASSUME Start(g)
      PROVE  SlotAccounting'
  BY <1>3 DEF SlotAccounting, SlotHolders, Start
<1>4. ASSUME StopBegin(g)
      PROVE  SlotAccounting'
  BY <1>4 DEF SlotAccounting, SlotHolders, StopBegin
<1>5. ASSUME StopReturn(g)
      PROVE  SlotAccounting'
  <2>1. SlotHolders' = SlotHolders /\ slots' = slots
    BY <1>5 DEF SlotHolders, TypeOK, StopReturn, scheduleHTTPDelivery
  <2> QED
    BY <2>1 DEF SlotAccounting
<1> QED
  BY <1>1, <1>2, <1>3, <1>4, <1>5 DEF Requests

(* Slot: the steps of flushLoop. *)
LEMMA SlotFlush ==
    ASSUME TypeOK, SlotAccounting,
           NEW g \in Gen, flushLoop(g)
    PROVE  SlotAccounting'
<1> USE DEF drainVars, queueVars, postVars, ingestVars, shipVars, stopVars, workVars, Poster
<1>1. ASSUME FlushTick(g)
      PROVE  SlotAccounting'
  BY <1>1 DEF SlotAccounting, SlotHolders, FlushTick
<1>2. ASSUME FlushStop(g)
      PROVE  SlotAccounting'
  BY <1>2 DEF SlotAccounting, SlotHolders, FlushStop
<1>3. ASSUME beginShutdownShipping(g)
      PROVE  SlotAccounting'
  BY <1>3 DEF SlotAccounting, SlotHolders, beginShutdownShipping
<1>4. ASSUME NEW t \in Track, DrainTrack(g, "flush", t)
      PROVE  SlotAccounting'
  BY <1>4 DEF SlotAccounting, SlotHolders, DrainTrack
<1>5. ASSUME FlushEmpty(g)
      PROVE  SlotAccounting'
  BY <1>5 DEF SlotAccounting, SlotHolders, FlushEmpty
<1>6. ASSUME FlushEncode(g)
      PROVE  SlotAccounting'
  BY <1>6 DEF SlotAccounting, SlotHolders, FlushEncode
<1>7. ASSUME FlushEncodeFails(g)
      PROVE  SlotAccounting'
  BY <1>7 DEF SlotAccounting, SlotHolders, FlushEncodeFails
<1>8. ASSUME enqueueShip(g)
      PROVE  SlotAccounting'
  BY <1>8 DEF SlotAccounting, SlotHolders, enqueueShip
<1>9. ASSUME closeQueue(g)
      PROVE  SlotAccounting'
  BY <1>9 DEF SlotAccounting, SlotHolders, closeQueue
<1> QED
  BY <1>1, <1>2, <1>3, <1>4, <1>5, <1>6, <1>7, <1>8, <1>9 DEF flushLoop, Drainer

(* Slot: the steps of shipWithRetryWait or a deadline. *)
LEMMA SlotPost ==
    ASSUME TypeOK, SlotAccounting,
           NEW g \in Gen, NEW w \in Poster, shipWithRetryWait(g, w) \/ Expire(g, w)
    PROVE  SlotAccounting'
<1> USE DEF drainVars, queueVars, postVars, ingestVars, shipVars, stopVars, workVars, Poster
<1>1. ASSUME Expire(g, w)
      PROVE  SlotAccounting'
  BY <1>1 DEF SlotAccounting, SlotHolders, Expire
<1>2. ASSUME Attempt(g, w)
      PROVE  SlotAccounting'
  BY <1>2 DEF SlotAccounting, SlotHolders, Attempt
<1>3. ASSUME try[g][w] = "post", PostOk(g, w)
      PROVE  SlotAccounting'
  BY <1>3 DEF SlotAccounting, SlotHolders, PostOk, PostEnds
<1>4. ASSUME try[g][w] = "post", PostRefused(g, w)
      PROVE  SlotAccounting'
  BY <1>4 DEF SlotAccounting, SlotHolders, PostRefused, PostEnds
<1>5. ASSUME NEW taken \in {{}, Body(g, w)}, try[g][w] = "post", PostFails(g, w, taken)
      PROVE  SlotAccounting'
  BY <1>5 DEF SlotAccounting, SlotHolders, PostFails, PostEnds
<1>6. ASSUME NEW taken \in {{}, Body(g, w)}, try[g][w] = "post", PostCut(g, w, taken)
      PROVE  SlotAccounting'
  BY <1>6 DEF SlotAccounting, SlotHolders, PostCut, PostEnds
<1>7. ASSUME BackoffOver(g, w)
      PROVE  SlotAccounting'
  BY <1>7 DEF SlotAccounting, SlotHolders, BackoffOver
<1>8. ASSUME BackoffCut(g, w)
      PROVE  SlotAccounting'
  BY <1>8 DEF SlotAccounting, SlotHolders, BackoffCut
<1> QED
  BY <1>1, <1>2, <1>3, <1>4, <1>5, <1>6, <1>7, <1>8 DEF shipWithRetryWait, PostReturns

(* Slot: the steps of shipLoop. *)
LEMMA SlotShip ==
    ASSUME TypeOK, SlotAccounting,
           NEW g \in Gen, shipLoop(g)
    PROVE  SlotAccounting'
<1> USE DEF drainVars, queueVars, postVars, ingestVars, shipVars, stopVars, workVars, Poster
<1>1. ASSUME PopTickJob(g)
      PROVE  SlotAccounting'
  BY <1>1 DEF SlotAccounting, SlotHolders, PopTickJob, Pop
<1>2. ASSUME PopShutdownJob(g)
      PROVE  SlotAccounting'
  BY <1>2 DEF SlotAccounting, SlotHolders, PopShutdownJob, Pop
<1>3. ASSUME PopWaits(g)
      PROVE  SlotAccounting'
  BY <1>3 DEF SlotAccounting, SlotHolders, PopWaits
<1>4. ASSUME PopWakes(g)
      PROVE  SlotAccounting'
  BY <1>4 DEF SlotAccounting, SlotHolders, PopWakes
<1>5. ASSUME ShutdownJob(g)
      PROVE  SlotAccounting'
  <2> DEFINE x == <<g, "ship">>
  <2>1. SlotHolders' = SlotHolders \cup {x}
    BY <1>5 DEF ShutdownJob, SlotHolders, TypeOK
  <2>2. x \in SlotHolders <=> slot[g]
    BY DEF SlotHolders
  <2>3. Cardinality(SlotHolders') = slots'
    BY ZenonT(30), <1>5, <2>1, <2>2, HoldersFinite, FS_AddElement DEF ShutdownJob, SlotAccounting
  <2>4. slots' <= RetiredSlots
    BY <1>5, ShipperAssumption DEF ShutdownJob, SlotFree, SlotAccounting, TypeOK
  <2> QED
    BY <2>3, <2>4 DEF SlotAccounting
<1>6. ASSUME ShutdownBusy(g)
      PROVE  SlotAccounting'
  BY <1>6 DEF SlotAccounting, SlotHolders, ShutdownBusy
<1>7. ASSUME DropQueued(g)
      PROVE  SlotAccounting'
  BY <1>7 DEF SlotAccounting, SlotHolders, DropQueued
<1>8. ASSUME ShipRequeue(g)
      PROVE  SlotAccounting'
  BY <1>8 DEF SlotAccounting, SlotHolders, ShipRequeue, AfterShip
<1>9. ASSUME ShipSettle(g)
      PROVE  SlotAccounting'
  BY <1>9 DEF SlotAccounting, SlotHolders, ShipSettle, AfterShip
<1>10. ASSUME ShipExit(g)
      PROVE  SlotAccounting'
  <2> DEFINE x == <<g, "ship">>
  <2>1. SlotHolders' = SlotHolders \ {x}
    BY <1>10 DEF ShipExit, SlotHolders, TypeOK
  <2>2. x \in SlotHolders <=> slot[g]
    BY DEF SlotHolders
  <2>3. Cardinality(SlotHolders') = slots'
    BY ZenonT(30), <1>10, <2>1, <2>2, HoldersFinite, FS_RemoveElement DEF ShipExit, SlotAccounting
  <2>4. slots' <= RetiredSlots
    BY <1>10, ShipperAssumption DEF ShipExit, SlotAccounting, TypeOK
  <2> QED
    BY <2>3, <2>4 DEF SlotAccounting
<1>11. ASSUME shipWithRetryWait(g, "ship")
      PROVE  SlotAccounting'
  BY <1>11, SlotPost
<1> QED
  BY <1>1, <1>2, <1>3, <1>4, <1>5, <1>6, <1>7, <1>8, <1>9, <1>10, <1>11 DEF shipLoop, Poster

(* Slot: the steps of deliverRetiredHTTP. *)
LEMMA SlotWork ==
    ASSUME TypeOK, SlotAccounting,
           NEW g \in Gen, deliverRetiredHTTP(g)
    PROVE  SlotAccounting'
<1> USE DEF drainVars, queueVars, postVars, ingestVars, shipVars, stopVars, workVars, Poster
<1>1. ASSUME WorkCheck(g)
      PROVE  SlotAccounting'
  <2>1. SlotHolders' = SlotHolders /\ slots' = slots
    BY <1>1 DEF SlotHolders, TypeOK, WorkCheck
  <2> QED
    BY <2>1 DEF SlotAccounting
<1>2. ASSUME WorkWait(g)
      PROVE  SlotAccounting'
  <2>1. SlotHolders' = SlotHolders /\ slots' = slots
    BY <1>2 DEF SlotHolders, TypeOK, WorkWait
  <2> QED
    BY <2>1 DEF SlotAccounting
<1>3. ASSUME NEW t \in Track, DrainTrack(g, "work", t)
      PROVE  SlotAccounting'
  BY <1>3 DEF SlotAccounting, SlotHolders, DrainTrack
<1>4. ASSUME WorkEncode(g)
      PROVE  SlotAccounting'
  <2>1. SlotHolders' = SlotHolders /\ slots' = slots
    BY <1>4 DEF SlotHolders, TypeOK, WorkEncode
  <2> QED
    BY <2>1 DEF SlotAccounting
<1>5. ASSUME WorkEncodeFails(g)
      PROVE  SlotAccounting'
  <2>1. SlotHolders' = SlotHolders /\ slots' = slots
    BY <1>5 DEF SlotHolders, TypeOK, WorkEncodeFails, WorkEnds
  <2> QED
    BY <2>1 DEF SlotAccounting
<1>6. ASSUME WorkBusy(g)
      PROVE  SlotAccounting'
  <2>1. SlotHolders' = SlotHolders /\ slots' = slots
    BY <1>6 DEF SlotHolders, TypeOK, WorkBusy, WorkEnds
  <2> QED
    BY <2>1 DEF SlotAccounting
<1>7. ASSUME WorkShip(g)
      PROVE  SlotAccounting'
  <2> DEFINE x == <<g, "work">>
  <2>1. SlotHolders' = SlotHolders \cup {x}
    BY <1>7 DEF WorkShip, SlotHolders, TypeOK
  <2>2. x \notin SlotHolders
    BY <1>7 DEF WorkShip, SlotHolders
  <2>3. Cardinality(SlotHolders') = slots'
    BY <1>7, <2>1, <2>2, HoldersFinite, FS_AddElement DEF WorkShip, SlotAccounting
  <2>4. slots' <= RetiredSlots
    BY <1>7, ShipperAssumption DEF WorkShip, SlotFree, SlotAccounting, TypeOK
  <2> QED
    BY <2>3, <2>4 DEF SlotAccounting
<1>8. ASSUME WorkSettle(g)
      PROVE  SlotAccounting'
  <2> DEFINE x == <<g, "work">>
  <2>1. SlotHolders' = SlotHolders \ {x}
    BY <1>8 DEF WorkSettle, WorkEnds, SlotHolders, TypeOK
  <2>2. x \in SlotHolders
    BY <1>8 DEF WorkSettle, SlotHolders
  <2>3. Cardinality(SlotHolders') = slots'
    BY ZenonT(30), <1>8, <2>1, <2>2, HoldersFinite, FS_RemoveElement DEF WorkSettle, SlotAccounting
  <2>4. slots' <= RetiredSlots
    BY <1>8, ShipperAssumption DEF WorkSettle, SlotAccounting, TypeOK
  <2> QED
    BY <2>3, <2>4 DEF SlotAccounting
<1>9. ASSUME shipWithRetryWait(g, "work")
      PROVE  SlotAccounting'
  BY <1>9, SlotPost
<1> QED
  BY <1>1, <1>2, <1>3, <1>4, <1>5, <1>6, <1>7, <1>8, <1>9
     DEF deliverRetiredHTTP, Poster, Drainer

(* Every step keeps the account of the retired slots. *)
LEMMA SlotStep ==
    ASSUME TypeOK, SlotAccounting, Next
    PROVE  SlotAccounting'
<1> USE DEF drainVars, queueVars, postVars, ingestVars, shipVars, stopVars, workVars, Poster
<1>1. CASE UNCHANGED vars
  BY <1>1 DEF SlotAccounting, SlotHolders, vars
<1> QED
  BY <1>1, SlotRequests, SlotFlush, SlotPost, SlotShip, SlotWork
     DEF Next, Generation, Terminated
=============================================================================
