---------------------------- MODULE ShipperRows ----------------------------
(***************************************************************************)
(* For any number of generations, rows, tracks, slots and retries: every   *)
(* step of Shipper keeps each recorded row in exactly one place until it is *)
(* delivered or counted dropped (Conservation).                            *)
(***************************************************************************)
EXTENDS ShipperFrames

(* Each leaf is tried with SMT, then with Zenon. *)
USE SMTT(30), ZenonT(30)

(* Rows move only in the generation that steps. *)
LEMMA ConservationFrame ==
    ASSUME NEW k \in Gen, ConservationOf(k), Same(k)
    PROVE  ConservationOf(k)'
  BY DEF Same, ConservationOf, JobRows

(* Conservation: the steps of a request, Start or Stop. *)
LEMMA ConservationRequests ==
    ASSUME TypeOK, Control, Conservation,
           NEW g \in Gen, Requests(g) \/ Start(g) \/ StopBegin(g) \/ StopReturn(g)
    PROVE  ConservationOf(g)'
<1> USE DEF drainVars, queueVars, postVars, ingestVars, shipVars, stopVars, workVars,
   Poster, Drainer
<1>1. ASSUME NEW r \in Row, Record(g, r)
      PROVE  ConservationOf(g)'
  <2>1. buf'[g] = buf[g] \cup {r} /\ req[g][r] = "none"
    BY <1>1 DEF TypeOK, Record
  <2>2. req'[g][r] # "none" /\ \A x \in Row \ {r} : req'[g][x] = req[g][x]
    BY <1>1 DEF TypeOK, Record, Http
  <2>3. acc'[g] = acc[g] /\ queue'[g] = queue[g] /\ job'[g] = job[g] /\ fate'[g] = fate[g]
    BY <1>1 DEF TypeOK, Record
  <2>4. ConservationOf(g)
    BY DEF Conservation
  <2> QED
    BY <2>1, <2>2, <2>3, <2>4 DEF ConservationOf, JobRows
<1>2. ASSUME NEW r \in Row, finishHTTPRecord(g, r)
      PROVE  ConservationOf(g)'
  <2>1. \A x \in Row : req'[g][x] # "none" <=> req[g][x] # "none"
    BY <1>2 DEF TypeOK, finishHTTPRecord
  <2>2. buf'[g] = buf[g] /\ acc'[g] = acc[g] /\ queue'[g] = queue[g] /\ job'[g] = job[g]
        /\ fate'[g] = fate[g]
    BY <1>2 DEF TypeOK, finishHTTPRecord
  <2>3. ConservationOf(g)
    BY DEF Conservation
  <2> QED
    BY <2>1, <2>2, <2>3 DEF ConservationOf, JobRows
<1>3. ASSUME Start(g)
      PROVE  ConservationOf(g)'
  <2>1. UNCHANGED <<req, buf, acc, queue, job, fate>>
    BY <1>3 DEF Start
  <2> QED
    BY <2>1 DEF Conservation, ConservationOf, JobRows
<1>4. ASSUME StopBegin(g)
      PROVE  ConservationOf(g)'
  <2>1. UNCHANGED <<req, buf, acc, queue, job, fate>>
    BY <1>4 DEF StopBegin
  <2> QED
    BY <2>1 DEF Conservation, ConservationOf, JobRows
<1>5. ASSUME StopReturn(g)
      PROVE  ConservationOf(g)'
  <2>1. UNCHANGED <<req, buf, acc, queue, job, fate>>
    BY <1>5 DEF StopReturn, scheduleHTTPDelivery
  <2> QED
    BY <2>1 DEF Conservation, ConservationOf, JobRows
<1> QED
  BY <1>1, <1>2, <1>3, <1>4, <1>5 DEF Requests

(* Conservation: the steps of flushLoop. *)
LEMMA ConservationFlush ==
    ASSUME TypeOK, Control, Conservation,
           NEW g \in Gen, flushLoop(g)
    PROVE  ConservationOf(g)'
<1> USE DEF drainVars, queueVars, postVars, ingestVars, shipVars, stopVars, workVars,
   Poster, Drainer
<1>1. ASSUME FlushTick(g)
      PROVE  ConservationOf(g)'
  <2>1. UNCHANGED <<req, buf, acc, queue, job, fate>>
    BY <1>1 DEF FlushTick
  <2> QED
    BY <2>1 DEF Conservation, ConservationOf, JobRows
<1>2. ASSUME FlushStop(g)
      PROVE  ConservationOf(g)'
  <2>1. UNCHANGED <<req, buf, acc, queue, job, fate>>
    BY <1>2 DEF FlushStop
  <2> QED
    BY <2>1 DEF Conservation, ConservationOf, JobRows
<1>3. ASSUME beginShutdownShipping(g)
      PROVE  ConservationOf(g)'
  <2>1. UNCHANGED <<req, buf, acc, queue, job, fate>>
    BY <1>3 DEF beginShutdownShipping
  <2> QED
    BY <2>1 DEF Conservation, ConservationOf, JobRows
<1>4. ASSUME NEW t \in Track, DrainTrack(g, "flush", t)
      PROVE  ConservationOf(g)'
  <2>1. buf'[g] = buf[g] \ RowsOf(t)
    BY <1>4 DEF TypeOK, DrainTrack
  <2>2. acc'[g]["flush"] = acc[g]["flush"] \cup (buf[g] \cap RowsOf(t))
    BY <1>4 DEF TypeOK, DrainTrack
  <2>3. acc'[g]["work"] = acc[g]["work"]
    BY <1>4 DEF TypeOK, DrainTrack
  <2>4. req'[g] = req[g] /\ queue'[g] = queue[g] /\ job'[g] = job[g] /\ fate'[g] = fate[g]
    BY <1>4 DEF TypeOK, DrainTrack
  <2>5. ConservationOf(g)
    BY DEF Conservation
  <2> QED
    BY <2>1, <2>2, <2>3, <2>4, <2>5 DEF ConservationOf, JobRows, RowsOf, Drainer
<1>5. ASSUME FlushEmpty(g)
      PROVE  ConservationOf(g)'
  <2>1. UNCHANGED <<req, buf, acc, queue, job, fate>>
    BY <1>5 DEF FlushEmpty
  <2> QED
    BY <2>1 DEF Conservation, ConservationOf, JobRows
<1>6. ASSUME FlushEncode(g)
      PROVE  ConservationOf(g)'
  <2>1. UNCHANGED <<req, buf, acc, queue, job, fate>>
    BY <1>6 DEF FlushEncode
  <2> QED
    BY <2>1 DEF Conservation, ConservationOf, JobRows
<1>7. ASSUME FlushEncodeFails(g)
      PROVE  ConservationOf(g)'
  <2>1. acc'[g]["flush"] = {} /\ acc'[g]["work"] = acc[g]["work"]
    BY <1>7 DEF TypeOK, FlushEncodeFails
  <2>2. \A x \in Row : fate'[g][x] = IF x \in acc[g]["flush"] THEN "encode" ELSE fate[g][x]
    BY <1>7 DEF TypeOK, FlushEncodeFails, Settle
  <2>3. req'[g] = req[g] /\ buf'[g] = buf[g] /\ queue'[g] = queue[g] /\ job'[g] = job[g]
    BY <1>7 DEF TypeOK, FlushEncodeFails
  <2>4. ConservationOf(g)
    BY DEF Conservation
  <2> QED
    BY <2>1, <2>2, <2>3, <2>4 DEF ConservationOf, JobRows
<1>8. ASSUME enqueueShip(g)
      PROVE  ConservationOf(g)'
  <2> DEFINE q == queue[g]
             F == acc[g]["flush"]
             new == [rows |-> F, shutdown |-> ready[g], seq |-> seq[g]]
             kept == IF QueueFull(g) THEN Tail(q) ELSE q
  <2>1. q \in Seq(Job) /\ (QueueFull(g) => q # <<>>)
    BY ShipperAssumption DEF TypeOK, QueueFull
  <2>2. kept \in Seq(Job)
    BY <2>1
  <2>3. new \in Job /\ new.rows = F
    BY DEF TypeOK, Job
  <2>4. queue'[g] = Append(kept, new)
    BY <1>8 DEF TypeOK, enqueueShip
  <2>5. /\ \A x : Queued(q, x) <=> x \in EvictedRows(g) \/ Queued(kept, x)
        /\ Apart(q) => Apart(kept) /\ \A x : x \in EvictedRows(g) => ~Queued(kept, x)
    BY <2>1, TailRows DEF EvictedRows
  <2> HIDE DEF kept, new
  <2>6. /\ \A x : Queued(queue'[g], x) <=> x \in F \/ Queued(kept, x)
        /\ Apart(kept) /\ (\A x : x \in F => ~Queued(kept, x)) => Apart(queue'[g])
    BY <2>2, <2>3, <2>4, AppendRows
  <2>7. \A x \in Row : fate'[g][x] = IF x \in EvictedRows(g) THEN "queue" ELSE fate[g][x]
    BY <1>8 DEF TypeOK, enqueueShip, Settle
  <2>8. acc'[g]["flush"] = {} /\ acc'[g]["work"] = acc[g]["work"]
    BY <1>8 DEF TypeOK, enqueueShip
  <2>9. req'[g] = req[g] /\ buf'[g] = buf[g] /\ job'[g] = job[g]
    BY <1>8 DEF enqueueShip
  <2>10. ConservationOf(g)
    BY DEF Conservation
  <2> QED
    BY <2>5, <2>6, <2>7, <2>8, <2>9, <2>10 DEF ConservationOf, JobRows
<1>9. ASSUME closeQueue(g)
      PROVE  ConservationOf(g)'
  <2>1. UNCHANGED <<req, buf, acc, queue, job, fate>>
    BY <1>9 DEF closeQueue
  <2> QED
    BY <2>1 DEF Conservation, ConservationOf, JobRows
<1> QED
  BY <1>1, <1>2, <1>3, <1>4, <1>5, <1>6, <1>7, <1>8, <1>9 DEF flushLoop, Drainer

(* Conservation: the steps of shipWithRetryWait or a deadline. *)
LEMMA ConservationPost ==
    ASSUME TypeOK, Control, Conservation,
           NEW g \in Gen, NEW w \in Poster, shipWithRetryWait(g, w) \/ Expire(g, w)
    PROVE  ConservationOf(g)'
<1> USE DEF drainVars, queueVars, postVars, ingestVars, shipVars, stopVars, workVars,
   Poster, Drainer
<1>1. ASSUME Expire(g, w)
      PROVE  ConservationOf(g)'
  <2>1. UNCHANGED <<req, buf, acc, queue, job, fate>>
    BY <1>1 DEF Expire
  <2> QED
    BY <2>1 DEF Conservation, ConservationOf, JobRows
<1>2. ASSUME Attempt(g, w)
      PROVE  ConservationOf(g)'
  <2>1. UNCHANGED <<req, buf, acc, queue, job, fate>>
    BY <1>2 DEF Attempt
  <2> QED
    BY <2>1 DEF Conservation, ConservationOf, JobRows
<1>3. ASSUME try[g][w] = "post", PostOk(g, w)
      PROVE  ConservationOf(g)'
  <2>1. UNCHANGED <<req, buf, acc, queue, job, fate>>
    BY <1>3 DEF PostOk, PostEnds
  <2> QED
    BY <2>1 DEF Conservation, ConservationOf, JobRows
<1>4. ASSUME try[g][w] = "post", PostRefused(g, w)
      PROVE  ConservationOf(g)'
  <2>1. UNCHANGED <<req, buf, acc, queue, job, fate>>
    BY <1>4 DEF PostRefused, PostEnds
  <2> QED
    BY <2>1 DEF Conservation, ConservationOf, JobRows
<1>5. ASSUME NEW taken \in {{}, Body(g, w)}, try[g][w] = "post", PostFails(g, w, taken)
      PROVE  ConservationOf(g)'
  <2>1. UNCHANGED <<req, buf, acc, queue, job, fate>>
    BY <1>5 DEF PostFails, PostEnds
  <2> QED
    BY <2>1 DEF Conservation, ConservationOf, JobRows
<1>6. ASSUME NEW taken \in {{}, Body(g, w)}, try[g][w] = "post", PostCut(g, w, taken)
      PROVE  ConservationOf(g)'
  <2>1. UNCHANGED <<req, buf, acc, queue, job, fate>>
    BY <1>6 DEF PostCut, PostEnds
  <2> QED
    BY <2>1 DEF Conservation, ConservationOf, JobRows
<1>7. ASSUME BackoffOver(g, w)
      PROVE  ConservationOf(g)'
  <2>1. UNCHANGED <<req, buf, acc, queue, job, fate>>
    BY <1>7 DEF BackoffOver
  <2> QED
    BY <2>1 DEF Conservation, ConservationOf, JobRows
<1>8. ASSUME BackoffCut(g, w)
      PROVE  ConservationOf(g)'
  <2>1. UNCHANGED <<req, buf, acc, queue, job, fate>>
    BY <1>8 DEF BackoffCut
  <2> QED
    BY <2>1 DEF Conservation, ConservationOf, JobRows
<1> QED
  BY <1>1, <1>2, <1>3, <1>4, <1>5, <1>6, <1>7, <1>8 DEF shipWithRetryWait, PostReturns

(* Conservation: the steps of shipLoop. *)
LEMMA ConservationShip ==
    ASSUME TypeOK, Control, Conservation,
           NEW g \in Gen, shipLoop(g)
    PROVE  ConservationOf(g)'
<1> USE DEF drainVars, queueVars, postVars, ingestVars, shipVars, stopVars, workVars,
   Poster, Drainer
<1>1. ASSUME PopTickJob(g)
      PROVE  ConservationOf(g)'
  <2>1. queue[g] \in Seq(Job) /\ queue[g] # <<>> /\ queue'[g] = Tail(queue[g])
    BY <1>1 DEF TypeOK, PopTickJob, Pop
  <2>2. Head(queue[g]) \in Job /\ job'[g] = Head(queue[g])
    BY <1>1, <2>1 DEF TypeOK, PopTickJob, Pop
  <2>3. JobRows(g) = {} /\ JobRows(g)' = Head(queue[g]).rows
    BY <1>1, <2>2, ShipperAssumption DEF JobRows, Control, ControlOf, PopTickJob, Pop
  <2>4. /\ \A x : Queued(queue[g], x) <=> x \in Head(queue[g]).rows \/ Queued(queue'[g], x)
        /\ Apart(queue[g]) => /\ Apart(queue'[g])
                             /\ \A x : x \in Head(queue[g]).rows => ~Queued(queue'[g], x)
    BY <2>1, TailRows
  <2>5. req'[g] = req[g] /\ buf'[g] = buf[g] /\ acc'[g] = acc[g] /\ fate'[g] = fate[g]
    BY <1>1 DEF TypeOK, PopTickJob, Pop
  <2>6. ConservationOf(g)
    BY DEF Conservation
  <2> QED
    BY <2>1, <2>2, <2>3, <2>4, <2>5, <2>6 DEF ConservationOf
<1>2. ASSUME PopShutdownJob(g)
      PROVE  ConservationOf(g)'
  <2>1. queue[g] \in Seq(Job) /\ queue[g] # <<>> /\ queue'[g] = Tail(queue[g])
    BY <1>2 DEF TypeOK, PopShutdownJob, Pop
  <2>2. Head(queue[g]) \in Job /\ job'[g] = Head(queue[g])
    BY <1>2, <2>1 DEF TypeOK, PopShutdownJob, Pop
  <2>3. JobRows(g) = {} /\ JobRows(g)' = Head(queue[g]).rows
    BY <1>2, <2>2, ShipperAssumption DEF JobRows, Control, ControlOf, PopShutdownJob, Pop
  <2>4. /\ \A x : Queued(queue[g], x) <=> x \in Head(queue[g]).rows \/ Queued(queue'[g], x)
        /\ Apart(queue[g]) => /\ Apart(queue'[g])
                             /\ \A x : x \in Head(queue[g]).rows => ~Queued(queue'[g], x)
    BY <2>1, TailRows
  <2>5. req'[g] = req[g] /\ buf'[g] = buf[g] /\ acc'[g] = acc[g] /\ fate'[g] = fate[g]
    BY <1>2 DEF TypeOK, PopShutdownJob, Pop
  <2>6. ConservationOf(g)
    BY DEF Conservation
  <2> QED
    BY <2>1, <2>2, <2>3, <2>4, <2>5, <2>6 DEF ConservationOf
<1>3. ASSUME PopWaits(g)
      PROVE  ConservationOf(g)'
  <2>1. UNCHANGED <<req, buf, acc, queue, job, fate>>
    BY <1>3 DEF PopWaits
  <2> QED
    BY <2>1 DEF Conservation, ConservationOf, JobRows
<1>4. ASSUME PopWakes(g)
      PROVE  ConservationOf(g)'
  <2>1. UNCHANGED <<req, buf, acc, queue, job, fate>>
    BY <1>4 DEF PopWakes
  <2> QED
    BY <2>1 DEF Conservation, ConservationOf, JobRows
<1>5. ASSUME ShutdownJob(g)
      PROVE  ConservationOf(g)'
  <2>1. job[g] # NoJob /\ job[g] \in Job
    BY <1>5, JobTyped DEF Control, ControlOf, ShutdownJob
  <2>2. job'[g] = [job[g] EXCEPT !.shutdown = TRUE]
    BY <1>5 DEF TypeOK, ShutdownJob
  <2>3. job'[g] # NoJob /\ job'[g].rows = job[g].rows
    BY <2>1, <2>2, ShutdownJobTyped
  <2>4. JobRows(g)' = JobRows(g)
    BY <2>1, <2>3 DEF JobRows
  <2>5. req'[g] = req[g] /\ buf'[g] = buf[g] /\ acc'[g] = acc[g] /\ queue'[g] = queue[g]
        /\ fate'[g] = fate[g]
    BY <1>5 DEF TypeOK, ShutdownJob
  <2>6. ConservationOf(g)
    BY DEF Conservation
  <2> QED
    BY <2>1, <2>2, <2>3, <2>4, <2>5, <2>6 DEF ConservationOf
<1>6. ASSUME ShutdownBusy(g)
      PROVE  ConservationOf(g)'
  <2>1. JobRows(g) = job[g].rows /\ JobRows(g)' = {}
    <3>1. job[g] # NoJob
      BY <1>6 DEF Control, ControlOf, ShutdownBusy
    <3>2. job'[g] = NoJob
      BY <1>6 DEF TypeOK, ShutdownBusy
    <3> QED
      BY <3>1, <3>2 DEF JobRows
  <2>2. \A x \in Row : fate'[g][x] = IF x \in JobRows(g) THEN "busy" ELSE fate[g][x]
    BY <1>6, <2>1 DEF TypeOK, ShutdownBusy, Settle
  <2>3. req'[g] = req[g] /\ buf'[g] = buf[g] /\ acc'[g] = acc[g] /\ queue'[g] = queue[g]
    BY <1>6 DEF TypeOK, ShutdownBusy
  <2>4. ConservationOf(g)
    BY DEF Conservation
  <2> QED
    BY <2>1, <2>2, <2>3, <2>4 DEF ConservationOf
<1>7. ASSUME DropQueued(g)
      PROVE  ConservationOf(g)'
  <2>1. queue[g] \in Seq(Job) /\ queue[g] # <<>> /\ queue'[g] = Tail(queue[g])
    BY <1>7 DEF TypeOK, DropQueued
  <2>2. \A x \in Row : fate'[g][x] = IF x \in Head(queue[g]).rows THEN "busy" ELSE fate[g][x]
    BY <1>7 DEF TypeOK, DropQueued, Settle
  <2>3. /\ \A x : Queued(queue[g], x) <=> x \in Head(queue[g]).rows \/ Queued(queue'[g], x)
        /\ Apart(queue[g]) => /\ Apart(queue'[g])
                             /\ \A x : x \in Head(queue[g]).rows => ~Queued(queue'[g], x)
    BY <2>1, TailRows
  <2>4. req'[g] = req[g] /\ buf'[g] = buf[g] /\ acc'[g] = acc[g] /\ job'[g] = job[g]
    BY <1>7 DEF TypeOK, DropQueued
  <2>5. ConservationOf(g)
    BY DEF Conservation
  <2> QED
    BY <2>1, <2>2, <2>3, <2>4, <2>5 DEF ConservationOf, JobRows
<1>8. ASSUME ShipRequeue(g)
      PROVE  ConservationOf(g)'
  <2>1. job[g] # NoJob
    BY <1>8 DEF Control, ControlOf, ShipRequeue, AfterShip
  <2>2. job[g] \in Job /\ JobRows(g) = job[g].rows
    BY <2>1, JobTyped DEF JobRows
  <2>3. JobRows(g)' = {}
    BY <1>8 DEF TypeOK, JobRows, ShipRequeue, AfterShip
  <2>4. queue[g] \in Seq(Job) /\ queue'[g] = <<job[g]>> \o queue[g]
    BY <1>8 DEF TypeOK, ShipRequeue, pushFront
  <2>5. /\ \A x : Queued(queue'[g], x) <=> x \in JobRows(g) \/ Queued(queue[g], x)
        /\ Apart(queue[g]) /\ (\A x : x \in JobRows(g) => ~Queued(queue[g], x)) => Apart(queue'[g])
    <3>1. queue'[g] = <<job[g]>> \o queue[g] /\ queue[g] \in Seq(Job) /\ job[g] \in Job
      BY <2>2, <2>4
    <3> QED
      BY <2>2, <3>1, FrontRows
  <2>6. req'[g] = req[g] /\ buf'[g] = buf[g] /\ acc'[g] = acc[g] /\ fate'[g] = fate[g]
    BY <1>8 DEF TypeOK, ShipRequeue, AfterShip
  <2>7. ConservationOf(g)
    BY DEF Conservation
  <2> QED
    BY <2>3, <2>5, <2>6, <2>7 DEF ConservationOf
<1>9. ASSUME ShipSettle(g)
      PROVE  ConservationOf(g)'
  <2>1. job[g] # NoJob
    BY <1>9 DEF Control, ControlOf, ShipSettle, AfterShip
  <2>2. JobRows(g) = job[g].rows /\ JobRows(g)' = {}
    BY <1>9, <2>1 DEF TypeOK, JobRows, ShipSettle, AfterShip
  <2>3. \A x \in Row : fate'[g][x] = IF x \in JobRows(g) THEN ShipResult(g, "ship") ELSE fate[g][x]
    BY <1>9, <2>2 DEF TypeOK, ShipSettle, Settle
  <2>4. req'[g] = req[g] /\ buf'[g] = buf[g] /\ acc'[g] = acc[g] /\ queue'[g] = queue[g]
    BY <1>9 DEF TypeOK, ShipSettle, AfterShip
  <2>5. ShipResult(g, "ship") # "pending"
    BY DEF ShipResult
  <2>6. ConservationOf(g)
    BY DEF Conservation
  <2> QED
    BY <2>1, <2>2, <2>3, <2>4, <2>5, <2>6 DEF ConservationOf
<1>10. ASSUME ShipExit(g)
      PROVE  ConservationOf(g)'
  <2>1. UNCHANGED <<req, buf, acc, queue, job, fate>>
    BY <1>10 DEF ShipExit
  <2> QED
    BY <2>1 DEF Conservation, ConservationOf, JobRows
<1>11. ASSUME shipWithRetryWait(g, "ship")
      PROVE  ConservationOf(g)'
  BY <1>11, ConservationPost
<1> QED
  BY <1>1, <1>2, <1>3, <1>4, <1>5, <1>6, <1>7, <1>8, <1>9, <1>10, <1>11 DEF shipLoop, Poster

(* Conservation: the steps of deliverRetiredHTTP. *)
LEMMA ConservationWork ==
    ASSUME TypeOK, Control, Conservation,
           NEW g \in Gen, deliverRetiredHTTP(g)
    PROVE  ConservationOf(g)'
<1> USE DEF drainVars, queueVars, postVars, ingestVars, shipVars, stopVars, workVars,
   Poster, Drainer
<1>1. ASSUME WorkCheck(g)
      PROVE  ConservationOf(g)'
  <2>1. UNCHANGED <<req, buf, acc, queue, job, fate>>
    BY <1>1 DEF WorkCheck
  <2> QED
    BY <2>1 DEF Conservation, ConservationOf, JobRows
<1>2. ASSUME WorkWait(g)
      PROVE  ConservationOf(g)'
  <2>1. UNCHANGED <<req, buf, acc, queue, job, fate>>
    BY <1>2 DEF WorkWait
  <2> QED
    BY <2>1 DEF Conservation, ConservationOf, JobRows
<1>3. ASSUME NEW t \in Track, DrainTrack(g, "work", t)
      PROVE  ConservationOf(g)'
  <2>1. buf'[g] = buf[g] \ RowsOf(t)
    BY <1>3 DEF TypeOK, DrainTrack
  <2>2. acc'[g]["work"] = acc[g]["work"] \cup (buf[g] \cap RowsOf(t))
    BY <1>3 DEF TypeOK, DrainTrack
  <2>3. acc'[g]["flush"] = acc[g]["flush"]
    BY <1>3 DEF TypeOK, DrainTrack
  <2>4. req'[g] = req[g] /\ queue'[g] = queue[g] /\ job'[g] = job[g] /\ fate'[g] = fate[g]
    BY <1>3 DEF TypeOK, DrainTrack
  <2>5. ConservationOf(g)
    BY DEF Conservation
  <2> QED
    BY <2>1, <2>2, <2>3, <2>4, <2>5 DEF ConservationOf, JobRows, RowsOf, Drainer
<1>4. ASSUME WorkEncode(g)
      PROVE  ConservationOf(g)'
  <2>1. UNCHANGED <<req, buf, acc, queue, job, fate>>
    BY <1>4 DEF WorkEncode
  <2> QED
    BY <2>1 DEF Conservation, ConservationOf, JobRows
<1>5. ASSUME WorkEncodeFails(g)
      PROVE  ConservationOf(g)'
  <2>1. acc'[g]["work"] = {} /\ acc'[g]["flush"] = acc[g]["flush"]
    BY <1>5 DEF TypeOK, WorkEncodeFails, WorkEnds
  <2>2. \A x \in Row : fate'[g][x] = IF x \in acc[g]["work"] THEN "encode" ELSE fate[g][x]
    BY <1>5 DEF TypeOK, WorkEncodeFails, WorkEnds, Settle
  <2>3. req'[g] = req[g] /\ buf'[g] = buf[g] /\ queue'[g] = queue[g] /\ job'[g] = job[g]
    BY <1>5 DEF TypeOK, WorkEncodeFails
  <2>4. ConservationOf(g)
    BY DEF Conservation
  <2> QED
    BY <2>1, <2>2, <2>3, <2>4 DEF ConservationOf, JobRows
<1>6. ASSUME WorkBusy(g)
      PROVE  ConservationOf(g)'
  <2>1. acc'[g]["work"] = {} /\ acc'[g]["flush"] = acc[g]["flush"]
    BY <1>6 DEF TypeOK, WorkBusy, WorkEnds
  <2>2. \A x \in Row : fate'[g][x] = IF x \in acc[g]["work"] THEN "busy" ELSE fate[g][x]
    BY <1>6 DEF TypeOK, WorkBusy, WorkEnds, Settle
  <2>3. req'[g] = req[g] /\ buf'[g] = buf[g] /\ queue'[g] = queue[g] /\ job'[g] = job[g]
    BY <1>6 DEF TypeOK, WorkBusy
  <2>4. ConservationOf(g)
    BY DEF Conservation
  <2> QED
    BY <2>1, <2>2, <2>3, <2>4 DEF ConservationOf, JobRows
<1>7. ASSUME WorkShip(g)
      PROVE  ConservationOf(g)'
  <2>1. UNCHANGED <<req, buf, acc, queue, job, fate>>
    BY <1>7 DEF WorkShip
  <2> QED
    BY <2>1 DEF Conservation, ConservationOf, JobRows
<1>8. ASSUME WorkSettle(g)
      PROVE  ConservationOf(g)'
  <2>1. acc'[g]["work"] = {} /\ acc'[g]["flush"] = acc[g]["flush"]
    BY <1>8 DEF TypeOK, WorkSettle, WorkEnds
  <2>2. \A x \in Row : fate'[g][x] = IF x \in acc[g]["work"] THEN ShipResult(g, "work") ELSE fate[g][x]
    BY <1>8 DEF TypeOK, WorkSettle, WorkEnds, Settle
  <2>3. req'[g] = req[g] /\ buf'[g] = buf[g] /\ queue'[g] = queue[g] /\ job'[g] = job[g]
    BY <1>8 DEF TypeOK, WorkSettle
  <2>4. ConservationOf(g)
    BY DEF Conservation
  <2> QED
    BY <2>1, <2>2, <2>3, <2>4 DEF ConservationOf, JobRows, ShipResult
<1>9. ASSUME shipWithRetryWait(g, "work")
      PROVE  ConservationOf(g)'
  BY <1>9, ConservationPost
<1> QED
  BY <1>1, <1>2, <1>3, <1>4, <1>5, <1>6, <1>7, <1>8, <1>9
     DEF deliverRetiredHTTP, Poster, Drainer

(* Every step keeps every row in one place. *)
LEMMA ConservationStep ==
    ASSUME TypeOK, Control, Conservation, Next
    PROVE  Conservation'
<1>1. ASSUME NEW g \in Gen, Generation(g)
      PROVE  Conservation'
  <2>1. ConservationOf(g)'
    BY <1>1, ConservationRequests, ConservationFlush, ConservationPost, ConservationShip,
       ConservationWork DEF Generation
  <2>2. ASSUME NEW k \in Gen, k # g
        PROVE  ConservationOf(k)'
    BY <1>1, <2>2, OneGenerationSteps, ConservationFrame DEF Conservation
  <2> QED
    BY <2>1, <2>2 DEF Conservation
<1>2. CASE UNCHANGED vars
  <2>1. ASSUME NEW k \in Gen
        PROVE  ConservationOf(k)'
    BY <1>2, UnchangedIsSame, ConservationFrame DEF Conservation
  <2> QED
    BY <2>1 DEF Conservation
<1> QED
  BY <1>1, <1>2 DEF Next, Terminated
=============================================================================
