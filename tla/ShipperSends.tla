---------------------------- MODULE ShipperSends ----------------------------
(***************************************************************************)
(* For any number of generations, rows, tracks, slots and retries: no step *)
(* of Shipper makes a batch sendable that the ingest has taken, unless its *)
(* answer was lost.                                                        *)
(***************************************************************************)
EXTENDS ShipperFrames

(* Each leaf is tried with SMT, then with Zenon. *)
USE SMTT(30), ZenonT(30)

(* Sending concerns only the generation that steps. *)
LEMMA UnsentFrame ==
    ASSUME NEW k \in Gen, UnsentOf(k), Same(k)
    PROVE  UnsentOf(k)'
  BY DEF Same, UnsentOf, JobRows

(* Unsent: the steps of a request, Start or Stop. *)
LEMMA UnsentRequests ==
    ASSUME TypeOK, Control, Conservation, UnsentOrUnsure,
           NEW g \in Gen, Requests(g) \/ Start(g) \/ StopBegin(g) \/ StopReturn(g)
    PROVE  UnsentOf(g)'
<1> USE DEF drainVars, queueVars, postVars, ingestVars, shipVars, stopVars, workVars,
   Poster, Drainer
<1>1. ASSUME NEW r \in Row, Record(g, r)
      PROVE  UnsentOf(g)'
  <2>1. buf'[g] = buf[g] \cup {r} /\ req[g][r] = "none"
    BY <1>1 DEF TypeOK, Record
  <2>2. req'[g][r] # "none" /\ \A x \in Row \ {r} : req'[g][x] = req[g][x]
    BY <1>1 DEF TypeOK, Record, Http
  <2>3. acc'[g] = acc[g] /\ work'[g] = work[g] /\ try'[g] = try[g]
        /\ expired'[g] = expired[g] /\ ready'[g] = ready[g] /\ job'[g] = job[g]
        /\ queue'[g] = queue[g] /\ seen'[g] = seen[g] /\ unsure'[g] = unsure[g]
        /\ doubled'[g] = doubled[g]
    BY <1>1 DEF Record
  <2>4. UnsentOf(g)
    BY DEF UnsentOrUnsure
  <2> QED
    BY <2>1, <2>2, <2>3, <2>4 DEF UnsentOf, JobRows
<1>2. ASSUME NEW r \in Row, finishHTTPRecord(g, r)
      PROVE  UnsentOf(g)'
  <2>1. \A x \in Row : req'[g][x] # "none" <=> req[g][x] # "none"
    BY <1>2 DEF TypeOK, finishHTTPRecord
  <2>2. work'[g] # work[g] => work'[g] = "check" /\ work[g] = "off"
    BY <1>2 DEF TypeOK, finishHTTPRecord, scheduleHTTPDelivery
  <2>3. buf'[g] = buf[g] /\ acc'[g] = acc[g] /\ try'[g] = try[g]
        /\ expired'[g] = expired[g] /\ ready'[g] = ready[g] /\ job'[g] = job[g]
        /\ queue'[g] = queue[g] /\ seen'[g] = seen[g] /\ unsure'[g] = unsure[g]
        /\ doubled'[g] = doubled[g]
    BY <1>2 DEF finishHTTPRecord, scheduleHTTPDelivery
  <2>4. UnsentOf(g)
    BY DEF UnsentOrUnsure
  <2> QED
    BY <2>1, <2>2, <2>3, <2>4 DEF UnsentOf, JobRows
<1>3. ASSUME Start(g)
      PROVE  UnsentOf(g)'
  <2>1. UNCHANGED <<req, buf, acc, work, try, expired, ready, job, queue, seen, unsure, doubled>>
    BY <1>3 DEF Start
  <2> QED
    BY <2>1 DEF UnsentOrUnsure, UnsentOf, JobRows
<1>4. ASSUME StopBegin(g)
      PROVE  UnsentOf(g)'
  <2>1. UNCHANGED <<req, buf, acc, work, try, expired, ready, job, queue, seen, unsure, doubled>>
    BY <1>4 DEF StopBegin
  <2> QED
    BY <2>1 DEF UnsentOrUnsure, UnsentOf, JobRows
<1>5. ASSUME StopReturn(g)
      PROVE  UnsentOf(g)'
  <2>1. work'[g] # work[g] => work'[g] = "check" /\ work[g] = "off"
    BY <1>5 DEF TypeOK, StopReturn, scheduleHTTPDelivery
  <2>2. req'[g] = req[g] /\ buf'[g] = buf[g] /\ acc'[g] = acc[g] /\ try'[g] = try[g]
        /\ expired'[g] = expired[g] /\ ready'[g] = ready[g] /\ job'[g] = job[g]
        /\ queue'[g] = queue[g] /\ seen'[g] = seen[g] /\ unsure'[g] = unsure[g]
        /\ doubled'[g] = doubled[g]
    BY <1>5 DEF StopReturn, scheduleHTTPDelivery
  <2>3. UnsentOf(g)
    BY DEF UnsentOrUnsure
  <2> QED
    BY <2>1, <2>2, <2>3 DEF UnsentOf, JobRows
<1> QED
  BY <1>1, <1>2, <1>3, <1>4, <1>5 DEF Requests

(* Unsent: the steps of flushLoop. *)
LEMMA UnsentFlush ==
    ASSUME TypeOK, Control, Conservation, UnsentOrUnsure,
           NEW g \in Gen, flushLoop(g)
    PROVE  UnsentOf(g)'
<1> USE DEF drainVars, queueVars, postVars, ingestVars, shipVars, stopVars, workVars,
   Poster, Drainer
<1>1. ASSUME FlushTick(g)
      PROVE  UnsentOf(g)'
  <2>1. UNCHANGED <<req, buf, acc, work, try, expired, ready, job, queue, seen, unsure, doubled>>
    BY <1>1 DEF FlushTick
  <2> QED
    BY <2>1 DEF UnsentOrUnsure, UnsentOf, JobRows
<1>2. ASSUME FlushStop(g)
      PROVE  UnsentOf(g)'
  <2>1. UNCHANGED <<req, buf, acc, work, try, expired, ready, job, queue, seen, unsure, doubled>>
    BY <1>2 DEF FlushStop
  <2> QED
    BY <2>1 DEF UnsentOrUnsure, UnsentOf, JobRows
<1>3. ASSUME beginShutdownShipping(g)
      PROVE  UnsentOf(g)'
  <2>1. ready'[g]
    BY <1>3 DEF TypeOK, beginShutdownShipping
  <2>2. req'[g] = req[g] /\ buf'[g] = buf[g] /\ acc'[g] = acc[g] /\ work'[g] = work[g]
        /\ try'[g] = try[g] /\ expired'[g] = expired[g] /\ job'[g] = job[g]
        /\ queue'[g] = queue[g] /\ seen'[g] = seen[g] /\ unsure'[g] = unsure[g]
        /\ doubled'[g] = doubled[g]
    BY <1>3 DEF beginShutdownShipping
  <2>3. UnsentOf(g)
    BY DEF UnsentOrUnsure
  <2> QED
    BY <2>1, <2>2, <2>3 DEF UnsentOf, JobRows
<1>4. ASSUME NEW t \in Track, DrainTrack(g, "flush", t)
      PROVE  UnsentOf(g)'
  <2>1. buf'[g] = buf[g] \ RowsOf(t)
    BY <1>4 DEF TypeOK, DrainTrack
  <2>2. acc'[g]["flush"] = acc[g]["flush"] \cup (buf[g] \cap RowsOf(t))
    BY <1>4 DEF TypeOK, DrainTrack
  <2>3. acc'[g]["work"] = acc[g]["work"]
    BY <1>4 DEF TypeOK, DrainTrack
  <2>4. flush[g] = "drain"
    BY <1>4 DEF TypeOK, DrainTrack, Draining
  <2>5. req'[g] = req[g] /\ work'[g] = work[g] /\ try'[g] = try[g]
        /\ expired'[g] = expired[g] /\ ready'[g] = ready[g] /\ job'[g] = job[g]
        /\ queue'[g] = queue[g] /\ seen'[g] = seen[g] /\ unsure'[g] = unsure[g]
        /\ doubled'[g] = doubled[g]
    BY <1>4 DEF DrainTrack
  <2>6. UnsentOf(g)
    BY DEF UnsentOrUnsure
  <2> QED
    BY <2>1, <2>2, <2>3, <2>4, <2>5, <2>6 DEF UnsentOf, JobRows
<1>5. ASSUME FlushEmpty(g)
      PROVE  UnsentOf(g)'
  <2>1. UNCHANGED <<req, buf, acc, work, try, expired, ready, job, queue, seen, unsure, doubled>>
    BY <1>5 DEF FlushEmpty
  <2> QED
    BY <2>1 DEF UnsentOrUnsure, UnsentOf, JobRows
<1>6. ASSUME FlushEncode(g)
      PROVE  UnsentOf(g)'
  <2>1. UNCHANGED <<req, buf, acc, work, try, expired, ready, job, queue, seen, unsure, doubled>>
    BY <1>6 DEF FlushEncode
  <2> QED
    BY <2>1 DEF UnsentOrUnsure, UnsentOf, JobRows
<1>7. ASSUME FlushEncodeFails(g)
      PROVE  UnsentOf(g)'
  <2>1. acc'[g]["flush"] = {} /\ acc'[g]["work"] = acc[g]["work"]
    BY <1>7 DEF TypeOK, FlushEncodeFails
  <2>2. req'[g] = req[g] /\ buf'[g] = buf[g] /\ work'[g] = work[g] /\ try'[g] = try[g]
        /\ expired'[g] = expired[g] /\ ready'[g] = ready[g] /\ job'[g] = job[g]
        /\ queue'[g] = queue[g] /\ seen'[g] = seen[g] /\ unsure'[g] = unsure[g]
        /\ doubled'[g] = doubled[g]
    BY <1>7 DEF FlushEncodeFails
  <2>3. UnsentOf(g)
    BY DEF UnsentOrUnsure
  <2> QED
    BY <2>1, <2>2, <2>3 DEF UnsentOf, JobRows
<1>8. ASSUME enqueueShip(g)
      PROVE  UnsentOf(g)'
  <2> DEFINE q == queue[g]
             F == acc[g]["flush"]
             new == [rows |-> F, shutdown |-> ready[g], seq |-> seq[g]]
             kept == IF QueueFull(g) THEN Tail(q) ELSE q
  <2>1. q \in Seq(Job) /\ (QueueFull(g) => q # <<>>)
    BY ShipperAssumption DEF TypeOK, QueueFull
  <2>2. kept \in Seq(Job)
    BY <2>1
  <2>3. new \in Job /\ new.rows = F
    BY DEF TypeOK, Job
  <2>4. queue'[g] = Append(kept, new)
    BY <1>8 DEF TypeOK, enqueueShip
  <2>5. \A x : Queued(kept, x) => Queued(q, x)
    BY <2>1, TailRows
  <2> HIDE DEF kept, new
  <2>6. \A x : Queued(queue'[g], x) <=> x \in F \/ Queued(kept, x)
    BY <2>2, <2>3, <2>4, AppendRows
  <2>7. acc'[g]["flush"] = {} /\ acc'[g]["work"] = acc[g]["work"]
    BY <1>8 DEF TypeOK, enqueueShip
  <2>8. req'[g] = req[g] /\ buf'[g] = buf[g] /\ work'[g] = work[g] /\ try'[g] = try[g]
        /\ expired'[g] = expired[g] /\ ready'[g] = ready[g] /\ job'[g] = job[g]
        /\ seen'[g] = seen[g] /\ unsure'[g] = unsure[g] /\ doubled'[g] = doubled[g]
    BY <1>8 DEF enqueueShip
  <2>9. UnsentOf(g)
    BY DEF UnsentOrUnsure
  <2> QED
    BY <2>5, <2>6, <2>7, <2>8, <2>9 DEF UnsentOf, JobRows
<1>9. ASSUME closeQueue(g)
      PROVE  UnsentOf(g)'
  <2>1. UNCHANGED <<req, buf, acc, work, try, expired, ready, job, queue, seen, unsure, doubled>>
    BY <1>9 DEF closeQueue
  <2> QED
    BY <2>1 DEF UnsentOrUnsure, UnsentOf, JobRows
<1> QED
  BY <1>1, <1>2, <1>3, <1>4, <1>5, <1>6, <1>7, <1>8, <1>9 DEF flushLoop, Drainer

(* A POST of poster w ends, and the ingest took the rows in taken of its body. *)
Answered(g, w, taken) ==
    /\ seen'[g] = seen[g] \cup taken /\ doubled'[g] = doubled[g] \cup (seen[g] \cap taken)
    /\ \A v \in Poster \ {w} : try'[g][v] = try[g][v]
    /\ req'[g] = req[g] /\ buf'[g] = buf[g] /\ acc'[g] = acc[g] /\ work'[g] = work[g]
    /\ expired'[g] = expired[g] /\ ready'[g] = ready[g] /\ job'[g] = job[g]
    /\ queue'[g] = queue[g]

(* However a POST ends: what the ingest took is not sent again, or its answer was
   lost, or its deadline is over. *)
LEMMA UnsentAnswer ==
    ASSUME TypeOK, Control, Conservation, UnsentOrUnsure,
           NEW g \in Gen, NEW w \in Poster, try[g][w] = "post",
           NEW taken \in {{}, Body(g, w)}, Answered(g, w, taken),
           \/ try'[g][w] = "ok" /\ unsure'[g] = unsure[g]
           \/ try'[g][w] \in {"permanent", "failed", "backoff"} /\ unsure'[g] = unsure[g] \cup taken
           \/ try'[g][w] = "failed" /\ unsure'[g] = unsure[g] /\ expired[g][w]
    PROVE  UnsentOf(g)'
<1> USE DEF Poster
<1>1. Body(g, w) = (IF w = "ship" THEN JobRows(g) ELSE acc[g]["work"])
  BY DEF Body, JobRows, Control, ControlOf
<1>2. w = "work" => work[g] = "ship"
  BY DEF Control, ControlOf
<1>3. taken \subseteq Body(g, w) /\ taken \subseteq Row
  BY BodyTyped
<1>4. /\ taken \cap (buf[g] \cup acc[g]["flush"]) = {}
      /\ JobRows(g) \cap acc[g]["work"] = {}
      /\ \A x \in taken : ~Queued(queue[g], x) /\ req[g][x] # "none"
  BY <1>1, <1>3 DEF Conservation, ConservationOf
<1>5. UnsentOf(g)
  BY DEF UnsentOrUnsure
<1>6. JobRows(g)' = JobRows(g)
  BY DEF Answered, JobRows
<1>7. taken \cap seen[g] \subseteq unsure[g]
  BY <1>1, <1>3, <1>5 DEF UnsentOf
<1>8. doubled'[g] \subseteq unsure'[g]
  BY <1>5, <1>7 DEF UnsentOf, Answered
<1>9. unsure[g] \subseteq unsure'[g]
  OBVIOUS
<1>10. /\ buf[g] \cap seen'[g] = buf[g] \cap seen[g]
       /\ acc[g]["flush"] \cap seen'[g] = acc[g]["flush"] \cap seen[g]
       /\ \A r \in Row : Queued(queue[g], r) /\ r \in seen'[g] => r \in seen[g]
       /\ \A r \in Row : r \in seen'[g] => r \in seen[g] \/ req[g][r] # "none"
  BY <1>4 DEF Answered
<1>11. CASE w = "ship"
  <2>1. acc[g]["work"] \cap seen'[g] = acc[g]["work"] \cap seen[g]
    BY <1>1, <1>3, <1>4, <1>11 DEF Answered
  <2>2. try'[g]["ship"] # "post" /\ try'[g]["work"] = try[g]["work"]
    BY <1>11 DEF Answered
  <2>3. ~expired[g]["ship"] /\ try'[g]["ship"] # "ok" => JobRows(g) \cap seen'[g] \subseteq unsure'[g]
    BY <1>1, <1>5, <1>11 DEF UnsentOf, Answered
  <2> QED
    BY <1>5, <1>6, <1>8, <1>9, <1>10, <2>1, <2>2, <2>3 DEF UnsentOf, Answered
<1>12. CASE w = "work"
  <2>1. JobRows(g) \cap seen'[g] = JobRows(g) \cap seen[g]
    BY <1>1, <1>3, <1>4, <1>12 DEF Answered
  <2>2. try'[g]["work"] # "post" /\ try'[g]["ship"] = try[g]["ship"]
    BY <1>12 DEF Answered
  <2>3. ~expired[g]["work"] /\ try'[g]["work"] # "ok"
           => acc[g]["work"] \cap seen'[g] \subseteq unsure'[g]
    BY <1>1, <1>5, <1>12 DEF UnsentOf, Answered
  <2> QED
    BY <1>2, <1>5, <1>6, <1>8, <1>9, <1>10, <1>12, <2>1, <2>2, <2>3 DEF UnsentOf, Answered
<1> QED
  BY <1>11, <1>12

(* Unsent: the steps of shipWithRetryWait or a deadline. *)
LEMMA UnsentPost ==
    ASSUME TypeOK, Control, Conservation, UnsentOrUnsure,
           NEW g \in Gen, NEW w \in Poster, shipWithRetryWait(g, w) \/ Expire(g, w)
    PROVE  UnsentOf(g)'
<1> USE DEF drainVars, queueVars, postVars, ingestVars, shipVars, stopVars, workVars,
   Poster, Drainer
<1>1. ASSUME Expire(g, w)
      PROVE  UnsentOf(g)'
  <2>1. expired'[g][w] /\ \A v \in Poster \ {w} : expired'[g][v] = expired[g][v]
    BY <1>1 DEF TypeOK, Expire
  <2>2. (w = "ship" => ready[g]) /\ (w = "work" => work[g] = "ship")
    BY <1>1 DEF Control, ControlOf, Expire
  <2>3. req'[g] = req[g] /\ buf'[g] = buf[g] /\ acc'[g] = acc[g] /\ work'[g] = work[g]
        /\ try'[g] = try[g] /\ ready'[g] = ready[g] /\ job'[g] = job[g]
        /\ queue'[g] = queue[g] /\ seen'[g] = seen[g] /\ unsure'[g] = unsure[g]
        /\ doubled'[g] = doubled[g]
    BY <1>1 DEF Expire
  <2>4. UnsentOf(g)
    BY DEF UnsentOrUnsure
  <2> QED
    BY <2>1, <2>2, <2>3, <2>4 DEF UnsentOf, JobRows
<1>2. ASSUME Attempt(g, w)
      PROVE  UnsentOf(g)'
  <2>1. try[g][w] = "check" /\ \A v \in Poster \ {w} : try'[g][v] = try[g][v]
    BY <1>2 DEF TypeOK, Attempt
  <2>2. try'[g][w] = "failed" \/ (try'[g][w] = "post" /\ ~WaitDone(g, w))
    BY <1>2 DEF TypeOK, Attempt
  <2>3. (expired[g]["ship"] => ready[g]) /\ (ready[g] => tickDone[g])
    BY DEF UnsentOrUnsure, UnsentOf, Control, ControlOf
  <2>4. try'[g][w] = "post" => ~expired[g][w]
    BY <2>2, <2>3 DEF WaitDone
  <2>5. req'[g] = req[g] /\ buf'[g] = buf[g] /\ acc'[g] = acc[g] /\ work'[g] = work[g]
        /\ expired'[g] = expired[g] /\ ready'[g] = ready[g] /\ job'[g] = job[g]
        /\ queue'[g] = queue[g] /\ seen'[g] = seen[g] /\ unsure'[g] = unsure[g]
        /\ doubled'[g] = doubled[g]
    BY <1>2 DEF Attempt
  <2>6. UnsentOf(g)
    BY DEF UnsentOrUnsure
  <2> QED
    BY <2>1, <2>2, <2>3, <2>4, <2>5, <2>6 DEF UnsentOf, JobRows
<1>3. ASSUME try[g][w] = "post", PostOk(g, w)
      PROVE  UnsentOf(g)'
  <2>1. Answered(g, w, Body(g, w))
    BY <1>3 DEF TypeOK, PostOk, PostEnds, IngestTakes, Answered
  <2>2. try'[g][w] = "ok" /\ unsure'[g] = unsure[g]
    BY <1>3 DEF TypeOK, PostOk, PostEnds
  <2> QED
    BY <1>3, <2>1, <2>2, UnsentAnswer
<1>4. ASSUME try[g][w] = "post", PostRefused(g, w)
      PROVE  UnsentOf(g)'
  <2>1. Answered(g, w, {})
    BY <1>4 DEF TypeOK, PostRefused, PostEnds, IngestTakes, Answered
  <2>2. try'[g][w] = "permanent" /\ unsure'[g] = unsure[g] \cup {}
    BY <1>4 DEF TypeOK, PostRefused, PostEnds
  <2> QED
    BY <1>4, <2>1, <2>2, UnsentAnswer
<1>5. ASSUME NEW taken \in {{}, Body(g, w)}, try[g][w] = "post", PostFails(g, w, taken)
      PROVE  UnsentOf(g)'
  <2>1. Answered(g, w, taken)
    BY <1>5 DEF TypeOK, PostFails, PostEnds, IngestTakes, Answered
  <2>2. try'[g][w] \in {"failed", "backoff"} /\ unsure'[g] = unsure[g] \cup taken
    BY <1>5 DEF TypeOK, PostFails, PostEnds
  <2> QED
    BY ZenonT(30), <1>5, <2>1, <2>2, UnsentAnswer
<1>6. ASSUME NEW taken \in {{}, Body(g, w)}, try[g][w] = "post", PostCut(g, w, taken)
      PROVE  UnsentOf(g)'
  <2>1. Answered(g, w, taken)
    BY <1>6 DEF TypeOK, PostCut, PostEnds, IngestTakes, Answered
  <2>2. try'[g][w] = "failed" /\ unsure'[g] = unsure[g] /\ expired[g][w]
    BY <1>6 DEF TypeOK, PostCut, PostEnds, CtxDone
  <2> QED
    BY ZenonT(30), <1>6, <2>1, <2>2, UnsentAnswer
<1>7. ASSUME BackoffOver(g, w)
      PROVE  UnsentOf(g)'
  <2>1. try[g][w] = "backoff" /\ try'[g][w] \in {"check", "failed"}
        /\ \A v \in Poster \ {w} : try'[g][v] = try[g][v]
    BY <1>7 DEF TypeOK, BackoffOver
  <2>2. req'[g] = req[g] /\ buf'[g] = buf[g] /\ acc'[g] = acc[g] /\ work'[g] = work[g]
        /\ expired'[g] = expired[g] /\ ready'[g] = ready[g] /\ job'[g] = job[g]
        /\ queue'[g] = queue[g] /\ seen'[g] = seen[g] /\ unsure'[g] = unsure[g]
        /\ doubled'[g] = doubled[g]
    BY <1>7 DEF BackoffOver
  <2>3. UnsentOf(g)
    BY DEF UnsentOrUnsure
  <2> QED
    BY <2>1, <2>2, <2>3 DEF UnsentOf, JobRows
<1>8. ASSUME BackoffCut(g, w)
      PROVE  UnsentOf(g)'
  <2>1. try[g][w] = "backoff" /\ try'[g][w] \in {"check", "failed"}
        /\ \A v \in Poster \ {w} : try'[g][v] = try[g][v]
    BY <1>8 DEF TypeOK, BackoffCut
  <2>2. req'[g] = req[g] /\ buf'[g] = buf[g] /\ acc'[g] = acc[g] /\ work'[g] = work[g]
        /\ expired'[g] = expired[g] /\ ready'[g] = ready[g] /\ job'[g] = job[g]
        /\ queue'[g] = queue[g] /\ seen'[g] = seen[g] /\ unsure'[g] = unsure[g]
        /\ doubled'[g] = doubled[g]
    BY <1>8 DEF BackoffCut
  <2>3. UnsentOf(g)
    BY DEF UnsentOrUnsure
  <2> QED
    BY <2>1, <2>2, <2>3 DEF UnsentOf, JobRows
<1> QED
  BY <1>1, <1>2, <1>3, <1>4, <1>5, <1>6, <1>7, <1>8 DEF shipWithRetryWait, PostReturns

(* Unsent: the steps of shipLoop. *)
LEMMA UnsentShip ==
    ASSUME TypeOK, Control, Conservation, UnsentOrUnsure,
           NEW g \in Gen, shipLoop(g)
    PROVE  UnsentOf(g)'
<1> USE DEF drainVars, queueVars, postVars, ingestVars, shipVars, stopVars, workVars,
   Poster, Drainer
<1>1. ASSUME PopTickJob(g)
      PROVE  UnsentOf(g)'
  <2>1. queue[g] \in Seq(Job) /\ queue[g] # <<>> /\ queue'[g] = Tail(queue[g])
    BY <1>1 DEF TypeOK, PopTickJob, Pop
  <2>2. Head(queue[g]) \in Job /\ job'[g] = Head(queue[g])
    BY <1>1, <2>1 DEF TypeOK, PopTickJob, Pop
  <2>3. JobRows(g) = {} /\ JobRows(g)' = Head(queue[g]).rows
    BY <1>1, <2>2, ShipperAssumption DEF JobRows, Control, ControlOf, PopTickJob, Pop
  <2>4. \A x : Queued(queue[g], x) <=> x \in Head(queue[g]).rows \/ Queued(queue'[g], x)
    BY <2>1, TailRows
  <2>5. Head(queue[g]).rows \subseteq Row
    BY <2>2 DEF Job
  <2>6. ship[g] = "pop" /\ try[g]["ship"] = "idle"
    BY <1>1 DEF Control, ControlOf, PopTickJob, Pop
  <2>7. try'[g]["ship"] = "check" /\ try'[g]["work"] = try[g]["work"]
    BY <1>1 DEF TypeOK, PopTickJob, StartShip
  <2>8. req'[g] = req[g] /\ buf'[g] = buf[g] /\ acc'[g] = acc[g] /\ work'[g] = work[g]
        /\ expired'[g] = expired[g] /\ ready'[g] = ready[g] /\ seen'[g] = seen[g]
        /\ unsure'[g] = unsure[g] /\ doubled'[g] = doubled[g]
    BY <1>1 DEF PopTickJob, Pop
  <2>9. UnsentOf(g)
    BY DEF UnsentOrUnsure
  <2> QED
    BY <2>1, <2>2, <2>3, <2>4, <2>5, <2>6, <2>7, <2>8, <2>9 DEF UnsentOf
<1>2. ASSUME PopShutdownJob(g)
      PROVE  UnsentOf(g)'
  <2>1. queue[g] \in Seq(Job) /\ queue[g] # <<>> /\ queue'[g] = Tail(queue[g])
    BY <1>2 DEF TypeOK, PopShutdownJob, Pop
  <2>2. Head(queue[g]) \in Job /\ job'[g] = Head(queue[g])
    BY <1>2, <2>1 DEF TypeOK, PopShutdownJob, Pop
  <2>3. JobRows(g) = {} /\ JobRows(g)' = Head(queue[g]).rows
    BY <1>2, <2>2, ShipperAssumption DEF JobRows, Control, ControlOf, PopShutdownJob, Pop
  <2>4. \A x : Queued(queue[g], x) <=> x \in Head(queue[g]).rows \/ Queued(queue'[g], x)
    BY <2>1, TailRows
  <2>5. Head(queue[g]).rows \subseteq Row
    BY <2>2 DEF Job
  <2>6. ship[g] = "pop" /\ try[g]["ship"] = "idle"
    BY <1>2 DEF Control, ControlOf, PopShutdownJob, Pop
  <2>7. req'[g] = req[g] /\ buf'[g] = buf[g] /\ acc'[g] = acc[g] /\ work'[g] = work[g]
        /\ try'[g] = try[g] /\ expired'[g] = expired[g] /\ ready'[g] = ready[g]
        /\ seen'[g] = seen[g] /\ unsure'[g] = unsure[g] /\ doubled'[g] = doubled[g]
    BY <1>2 DEF PopShutdownJob, Pop
  <2>8. UnsentOf(g)
    BY DEF UnsentOrUnsure
  <2> QED
    BY <2>1, <2>2, <2>3, <2>4, <2>5, <2>6, <2>7, <2>8 DEF UnsentOf
<1>3. ASSUME PopWaits(g)
      PROVE  UnsentOf(g)'
  <2>1. UNCHANGED <<req, buf, acc, work, try, expired, ready, job, queue, seen, unsure, doubled>>
    BY <1>3 DEF PopWaits
  <2> QED
    BY <2>1 DEF UnsentOrUnsure, UnsentOf, JobRows
<1>4. ASSUME PopWakes(g)
      PROVE  UnsentOf(g)'
  <2>1. UNCHANGED <<req, buf, acc, work, try, expired, ready, job, queue, seen, unsure, doubled>>
    BY <1>4 DEF PopWakes
  <2> QED
    BY <2>1 DEF UnsentOrUnsure, UnsentOf, JobRows
<1>5. ASSUME ShutdownJob(g)
      PROVE  UnsentOf(g)'
  <2>1. job[g] # NoJob /\ job[g] \in Job
    BY <1>5, JobTyped DEF Control, ControlOf, ShutdownJob
  <2>2. job'[g] = [job[g] EXCEPT !.shutdown = TRUE]
    BY <1>5 DEF TypeOK, ShutdownJob
  <2>3. job'[g] # NoJob /\ job'[g].rows = job[g].rows
    BY <2>1, <2>2, ShutdownJobTyped
  <2>4. JobRows(g)' = JobRows(g)
    BY <2>1, <2>3 DEF JobRows
  <2>5. try'[g]["ship"] = "check" /\ try'[g]["work"] = try[g]["work"]
    BY <1>5 DEF TypeOK, ShutdownJob, StartShip
  <2>6. try[g]["ship"] = "idle"
    BY <1>5 DEF Control, ControlOf, ShutdownJob
  <2>7. req'[g] = req[g] /\ buf'[g] = buf[g] /\ acc'[g] = acc[g] /\ work'[g] = work[g]
        /\ expired'[g] = expired[g] /\ ready'[g] = ready[g] /\ queue'[g] = queue[g]
        /\ seen'[g] = seen[g] /\ unsure'[g] = unsure[g] /\ doubled'[g] = doubled[g]
    BY ZenonT(30), <1>5 DEF ShutdownJob
  <2>8. UnsentOf(g)
    BY DEF UnsentOrUnsure
  <2> QED
    BY <2>1, <2>2, <2>3, <2>4, <2>5, <2>6, <2>7, <2>8 DEF UnsentOf
<1>6. ASSUME ShutdownBusy(g)
      PROVE  UnsentOf(g)'
  <2>1. JobRows(g)' = {}
    BY <1>6 DEF TypeOK, ShutdownBusy, JobRows
  <2>2. req'[g] = req[g] /\ buf'[g] = buf[g] /\ acc'[g] = acc[g] /\ work'[g] = work[g]
        /\ try'[g] = try[g] /\ expired'[g] = expired[g] /\ ready'[g] = ready[g]
        /\ queue'[g] = queue[g] /\ seen'[g] = seen[g] /\ unsure'[g] = unsure[g]
        /\ doubled'[g] = doubled[g]
    BY ZenonT(30), <1>6 DEF ShutdownBusy
  <2>3. UnsentOf(g)
    BY DEF UnsentOrUnsure
  <2> QED
    BY <2>1, <2>2, <2>3 DEF UnsentOf
<1>7. ASSUME DropQueued(g)
      PROVE  UnsentOf(g)'
  <2>1. queue[g] \in Seq(Job) /\ queue[g] # <<>> /\ queue'[g] = Tail(queue[g])
    BY <1>7 DEF TypeOK, DropQueued
  <2>2. \A x : Queued(queue[g], x) <=> x \in Head(queue[g]).rows \/ Queued(queue'[g], x)
    BY <2>1, TailRows
  <2>3. req'[g] = req[g] /\ buf'[g] = buf[g] /\ acc'[g] = acc[g] /\ work'[g] = work[g]
        /\ try'[g] = try[g] /\ expired'[g] = expired[g] /\ ready'[g] = ready[g]
        /\ job'[g] = job[g] /\ seen'[g] = seen[g] /\ unsure'[g] = unsure[g]
        /\ doubled'[g] = doubled[g]
    BY <1>7 DEF DropQueued
  <2>4. UnsentOf(g)
    BY DEF UnsentOrUnsure
  <2> QED
    BY <2>1, <2>2, <2>3, <2>4 DEF UnsentOf, JobRows
<1>8. ASSUME ShipRequeue(g)
      PROVE  UnsentOf(g)'
  <2>1. job[g] # NoJob
    BY <1>8 DEF Control, ControlOf, ShipRequeue, AfterShip
  <2>2. job[g] \in Job /\ JobRows(g) = job[g].rows
    BY <2>1, JobTyped DEF JobRows
  <2>3. JobRows(g)' = {}
    BY <1>8 DEF TypeOK, JobRows, ShipRequeue, AfterShip
  <2>4. queue[g] \in Seq(Job) /\ queue'[g] = <<job[g]>> \o queue[g]
    BY <1>8 DEF TypeOK, ShipRequeue, pushFront
  <2>5. \A x : Queued(queue'[g], x) <=> x \in job[g].rows \/ Queued(queue[g], x)
    BY <2>2, <2>4, FrontRows
  <2>6. try[g]["ship"] = "failed"
    BY <1>8 DEF TypeOK, ShipRequeue, Requeues
  <2>7. try' = [try EXCEPT ![g]["ship"] = "idle"]
    BY <1>8 DEF ShipRequeue, AfterShip, EndShip
  <2>8. try'[g]["ship"] = "idle" /\ try'[g]["work"] = try[g]["work"]
    BY <2>7 DEF TypeOK
  <2>9. req'[g] = req[g] /\ buf'[g] = buf[g] /\ acc'[g] = acc[g] /\ work'[g] = work[g]
        /\ expired'[g] = expired[g] /\ ready'[g] = ready[g] /\ seen'[g] = seen[g]
        /\ unsure'[g] = unsure[g] /\ doubled'[g] = doubled[g]
    BY <1>8 DEF ShipRequeue, AfterShip
  <2>10. UnsentOf(g)
    BY DEF UnsentOrUnsure
  <2> QED
    BY <2>1, <2>2, <2>3, <2>4, <2>5, <2>6, <2>7, <2>8, <2>9, <2>10 DEF UnsentOf
<1>9. ASSUME ShipSettle(g)
      PROVE  UnsentOf(g)'
  <2>1. JobRows(g)' = {}
    BY <1>9 DEF TypeOK, JobRows, ShipSettle, AfterShip
  <2>2. try'[g]["ship"] = "idle" /\ try'[g]["work"] = try[g]["work"]
    BY <1>9 DEF TypeOK, ShipSettle, AfterShip, EndShip
  <2>3. req'[g] = req[g] /\ buf'[g] = buf[g] /\ acc'[g] = acc[g] /\ work'[g] = work[g]
        /\ expired'[g] = expired[g] /\ ready'[g] = ready[g] /\ queue'[g] = queue[g]
        /\ seen'[g] = seen[g] /\ unsure'[g] = unsure[g] /\ doubled'[g] = doubled[g]
    BY <1>9 DEF ShipSettle, AfterShip
  <2>4. UnsentOf(g)
    BY DEF UnsentOrUnsure
  <2> QED
    BY <2>1, <2>2, <2>3, <2>4 DEF UnsentOf
<1>10. ASSUME ShipExit(g)
      PROVE  UnsentOf(g)'
  <2>1. expired'[g]["ship"] /\ expired'[g]["work"] = expired[g]["work"]
    BY <1>10 DEF TypeOK, ShipExit
  <2>2. ready[g]
    BY <1>10 DEF Control, ControlOf, ShipExit, PopEnds
  <2>3. req'[g] = req[g] /\ buf'[g] = buf[g] /\ acc'[g] = acc[g] /\ work'[g] = work[g]
        /\ try'[g] = try[g] /\ ready'[g] = ready[g] /\ job'[g] = job[g]
        /\ queue'[g] = queue[g] /\ seen'[g] = seen[g] /\ unsure'[g] = unsure[g]
        /\ doubled'[g] = doubled[g]
    BY <1>10 DEF ShipExit
  <2>4. UnsentOf(g)
    BY DEF UnsentOrUnsure
  <2> QED
    BY <2>1, <2>2, <2>3, <2>4 DEF UnsentOf, JobRows
<1>11. ASSUME shipWithRetryWait(g, "ship")
      PROVE  UnsentOf(g)'
  BY <1>11, UnsentPost
<1> QED
  BY <1>1, <1>2, <1>3, <1>4, <1>5, <1>6, <1>7, <1>8, <1>9, <1>10, <1>11 DEF shipLoop, Poster

(* Unsent: the steps of deliverRetiredHTTP. *)
LEMMA UnsentWork ==
    ASSUME TypeOK, Control, Conservation, UnsentOrUnsure,
           NEW g \in Gen, deliverRetiredHTTP(g)
    PROVE  UnsentOf(g)'
<1> USE DEF drainVars, queueVars, postVars, ingestVars, shipVars, stopVars, workVars,
   Poster, Drainer
<1>1. ASSUME WorkCheck(g)
      PROVE  UnsentOf(g)'
  <2>1. work[g] = "check" /\ work'[g] \in {"wait", "off"}
    BY <1>1 DEF TypeOK, WorkCheck
  <2>2. req'[g] = req[g] /\ buf'[g] = buf[g] /\ acc'[g] = acc[g] /\ try'[g] = try[g]
        /\ expired'[g] = expired[g] /\ ready'[g] = ready[g] /\ job'[g] = job[g]
        /\ queue'[g] = queue[g] /\ seen'[g] = seen[g] /\ unsure'[g] = unsure[g]
        /\ doubled'[g] = doubled[g]
    BY <1>1 DEF WorkCheck
  <2>3. UnsentOf(g)
    BY DEF UnsentOrUnsure
  <2> QED
    BY <2>1, <2>2, <2>3 DEF UnsentOf, JobRows
<1>2. ASSUME WorkWait(g)
      PROVE  UnsentOf(g)'
  <2>1. work[g] = "wait" /\ work'[g] = "drain"
    BY <1>2 DEF TypeOK, WorkWait
  <2>2. acc[g]["work"] = {}
    BY <2>1 DEF Control, ControlOf
  <2>3. req'[g] = req[g] /\ buf'[g] = buf[g] /\ acc'[g] = acc[g] /\ try'[g] = try[g]
        /\ expired'[g] = expired[g] /\ ready'[g] = ready[g] /\ job'[g] = job[g]
        /\ queue'[g] = queue[g] /\ seen'[g] = seen[g] /\ unsure'[g] = unsure[g]
        /\ doubled'[g] = doubled[g]
    BY <1>2 DEF WorkWait
  <2>4. UnsentOf(g)
    BY DEF UnsentOrUnsure
  <2> QED
    BY <2>1, <2>2, <2>3, <2>4 DEF UnsentOf, JobRows
<1>3. ASSUME NEW t \in Track, DrainTrack(g, "work", t)
      PROVE  UnsentOf(g)'
  <2>1. buf'[g] = buf[g] \ RowsOf(t)
    BY <1>3 DEF TypeOK, DrainTrack
  <2>2. acc'[g]["work"] = acc[g]["work"] \cup (buf[g] \cap RowsOf(t))
    BY <1>3 DEF TypeOK, DrainTrack
  <2>3. acc'[g]["flush"] = acc[g]["flush"]
    BY <1>3 DEF TypeOK, DrainTrack
  <2>4. work[g] = "drain"
    BY <1>3 DEF TypeOK, DrainTrack, Draining
  <2>5. req'[g] = req[g] /\ work'[g] = work[g] /\ try'[g] = try[g]
        /\ expired'[g] = expired[g] /\ ready'[g] = ready[g] /\ job'[g] = job[g]
        /\ queue'[g] = queue[g] /\ seen'[g] = seen[g] /\ unsure'[g] = unsure[g]
        /\ doubled'[g] = doubled[g]
    BY <1>3 DEF DrainTrack
  <2>6. UnsentOf(g)
    BY DEF UnsentOrUnsure
  <2> QED
    BY <2>1, <2>2, <2>3, <2>4, <2>5, <2>6 DEF UnsentOf, JobRows
<1>4. ASSUME WorkEncode(g)
      PROVE  UnsentOf(g)'
  <2>1. work[g] = "drain" /\ work'[g] = "slot"
    BY <1>4 DEF TypeOK, WorkEncode
  <2>2. req'[g] = req[g] /\ buf'[g] = buf[g] /\ acc'[g] = acc[g] /\ try'[g] = try[g]
        /\ expired'[g] = expired[g] /\ ready'[g] = ready[g] /\ job'[g] = job[g]
        /\ queue'[g] = queue[g] /\ seen'[g] = seen[g] /\ unsure'[g] = unsure[g]
        /\ doubled'[g] = doubled[g]
    BY <1>4 DEF WorkEncode
  <2>3. UnsentOf(g)
    BY DEF UnsentOrUnsure
  <2> QED
    BY <2>1, <2>2, <2>3 DEF UnsentOf, JobRows
<1>5. ASSUME WorkEncodeFails(g)
      PROVE  UnsentOf(g)'
  <2>1. acc'[g]["work"] = {} /\ acc'[g]["flush"] = acc[g]["flush"]
    BY <1>5 DEF TypeOK, WorkEncodeFails, WorkEnds
  <2>2. work[g] = "drain" /\ work'[g] = "check"
    BY <1>5 DEF TypeOK, WorkEncodeFails, WorkEnds
  <2>3. req'[g] = req[g] /\ buf'[g] = buf[g] /\ try'[g] = try[g]
        /\ expired'[g] = expired[g] /\ ready'[g] = ready[g] /\ job'[g] = job[g]
        /\ queue'[g] = queue[g] /\ seen'[g] = seen[g] /\ unsure'[g] = unsure[g]
        /\ doubled'[g] = doubled[g]
    BY <1>5 DEF WorkEncodeFails, WorkEnds
  <2>4. UnsentOf(g)
    BY DEF UnsentOrUnsure
  <2> QED
    BY <2>1, <2>2, <2>3, <2>4 DEF UnsentOf, JobRows
<1>6. ASSUME WorkBusy(g)
      PROVE  UnsentOf(g)'
  <2>1. acc'[g]["work"] = {} /\ acc'[g]["flush"] = acc[g]["flush"]
    BY <1>6 DEF TypeOK, WorkBusy, WorkEnds
  <2>2. work[g] = "slot" /\ work'[g] = "check"
    BY <1>6 DEF TypeOK, WorkBusy, WorkEnds
  <2>3. req'[g] = req[g] /\ buf'[g] = buf[g] /\ try'[g] = try[g]
        /\ expired'[g] = expired[g] /\ ready'[g] = ready[g] /\ job'[g] = job[g]
        /\ queue'[g] = queue[g] /\ seen'[g] = seen[g] /\ unsure'[g] = unsure[g]
        /\ doubled'[g] = doubled[g]
    BY <1>6 DEF WorkBusy, WorkEnds
  <2>4. UnsentOf(g)
    BY DEF UnsentOrUnsure
  <2> QED
    BY <2>1, <2>2, <2>3, <2>4 DEF UnsentOf, JobRows
<1>7. ASSUME WorkShip(g)
      PROVE  UnsentOf(g)'
  <2>1. work[g] = "slot" /\ work'[g] = "ship"
    BY <1>7 DEF TypeOK, WorkShip
  <2>2. try'[g]["work"] = "check" /\ try'[g]["ship"] = try[g]["ship"]
    BY <1>7 DEF TypeOK, WorkShip, StartShip
  <2>3. ~expired[g]["work"]
    BY <2>1 DEF UnsentOrUnsure, UnsentOf
  <2>4. req'[g] = req[g] /\ buf'[g] = buf[g] /\ acc'[g] = acc[g]
        /\ expired'[g] = expired[g] /\ ready'[g] = ready[g] /\ job'[g] = job[g]
        /\ queue'[g] = queue[g] /\ seen'[g] = seen[g] /\ unsure'[g] = unsure[g]
        /\ doubled'[g] = doubled[g]
    BY <1>7 DEF WorkShip
  <2>5. UnsentOf(g)
    BY DEF UnsentOrUnsure
  <2> QED
    BY <2>1, <2>2, <2>3, <2>4, <2>5 DEF UnsentOf, JobRows
<1>8. ASSUME WorkSettle(g)
      PROVE  UnsentOf(g)'
  <2>1. acc'[g]["work"] = {} /\ acc'[g]["flush"] = acc[g]["flush"]
    BY <1>8 DEF TypeOK, WorkSettle, WorkEnds
  <2>2. work[g] = "ship" /\ work'[g] = "check"
    BY <1>8 DEF TypeOK, WorkSettle, WorkEnds
  <2>3. try'[g]["work"] = "idle" /\ try'[g]["ship"] = try[g]["ship"]
    BY <1>8 DEF TypeOK, WorkSettle, EndShip
  <2>4. ~expired'[g]["work"] /\ expired'[g]["ship"] = expired[g]["ship"]
    BY <1>8 DEF TypeOK, WorkSettle
  <2>5. req'[g] = req[g] /\ buf'[g] = buf[g] /\ ready'[g] = ready[g] /\ job'[g] = job[g]
        /\ queue'[g] = queue[g] /\ seen'[g] = seen[g] /\ unsure'[g] = unsure[g]
        /\ doubled'[g] = doubled[g]
    BY <1>8 DEF WorkSettle, WorkEnds
  <2>6. UnsentOf(g)
    BY DEF UnsentOrUnsure
  <2> QED
    BY <2>1, <2>2, <2>3, <2>4, <2>5, <2>6 DEF UnsentOf, JobRows
<1>9. ASSUME shipWithRetryWait(g, "work")
      PROVE  UnsentOf(g)'
  BY <1>9, UnsentPost
<1> QED
  BY <1>1, <1>2, <1>3, <1>4, <1>5, <1>6, <1>7, <1>8, <1>9
     DEF deliverRetiredHTTP, Poster, Drainer

(* Every step keeps apart what was sent and what may be sent. *)
LEMMA UnsentStep ==
    ASSUME TypeOK, Control, Conservation, UnsentOrUnsure, Next
    PROVE  UnsentOrUnsure'
<1>1. ASSUME NEW g \in Gen, Generation(g)
      PROVE  UnsentOrUnsure'
  <2>1. UnsentOf(g)'
    BY <1>1, UnsentRequests, UnsentFlush, UnsentPost, UnsentShip, UnsentWork DEF Generation
  <2>2. ASSUME NEW k \in Gen, k # g
        PROVE  UnsentOf(k)'
    BY <1>1, <2>2, OneGenerationSteps, UnsentFrame DEF UnsentOrUnsure
  <2> QED
    BY <2>1, <2>2 DEF UnsentOrUnsure
<1>2. CASE UNCHANGED vars
  <2>1. ASSUME NEW k \in Gen
        PROVE  UnsentOf(k)'
    BY <1>2, UnchangedIsSame, UnsentFrame DEF UnsentOrUnsure
  <2> QED
    BY <2>1 DEF UnsentOrUnsure
<1> QED
  BY <1>1, <1>2 DEF Next, Terminated
=============================================================================
