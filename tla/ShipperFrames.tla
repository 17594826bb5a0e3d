--------------------------- MODULE ShipperFrames ---------------------------
(***************************************************************************)
(* For any number of generations, rows, tracks, slots and retries: what the *)
(* proofs about Shipper share. A batch has the type of a batch; the rows of *)
(* the queue are those of its head and of its rest; a step of one generation *)
(* leaves all others alone.                                                *)
(***************************************************************************)
EXTENDS Shipper, TLAPS

(* Each leaf is tried with SMT, then with Zenon. *)
USE SMTT(30), ZenonT(30)

(* shipLoop's job is a typed batch whenever it holds one. *)
LEMMA JobTyped ==
    ASSUME TypeOK, NEW g \in Gen, job[g] # NoJob
    PROVE  job[g] \in Job /\ job[g].rows \subseteq Row
  BY DEF TypeOK, Job

(* Marking a batch as one of the shutdown phase keeps its rows. *)
LEMMA ShutdownJobTyped ==
    ASSUME NEW j \in Job
    PROVE  /\ [j EXCEPT !.shutdown = TRUE] \in Job
           /\ [j EXCEPT !.shutdown = TRUE].rows = j.rows
           /\ [j EXCEPT !.shutdown = TRUE] # NoJob
<1>1. [j EXCEPT !.shutdown = TRUE] \in Job /\ [j EXCEPT !.shutdown = TRUE].rows = j.rows
  BY ZenonT(30) DEF Job
<1> QED
  BY ZenonT(30), <1>1, ShipperAssumption

(* What a POST carries is a set of rows. *)
LEMMA BodyTyped ==
    ASSUME TypeOK, Control, NEW g \in Gen, NEW w \in Poster, try[g][w] = "post"
    PROVE  Body(g, w) \subseteq Row
<1>1. CASE w = "ship"
  <2>1. job[g] # NoJob
    BY <1>1 DEF Control, ControlOf
  <2> QED
    BY <1>1, <2>1, JobTyped DEF Body
<1>2. CASE w = "work"
  BY <1>2 DEF Body, TypeOK, Drainer
<1> QED
  BY <1>1, <1>2 DEF Poster

-----------------------------------------------------------------------------
(* Taking the head off a queue takes its rows off it. *)
LEMMA TailRows ==
    ASSUME NEW q \in Seq(Job), q # <<>>
    PROVE  /\ \A x : Queued(q, x) <=> x \in Head(q).rows \/ Queued(Tail(q), x)
           /\ Apart(q) => Apart(Tail(q)) /\ \A x : x \in Head(q).rows => ~Queued(Tail(q), x)
<1> DEFINE s == Tail(q)
           n == Len(q)
<1>1. n \in Nat \ {0} /\ DOMAIN q = 1..n /\ DOMAIN s = 1..(n - 1) /\ Head(q) = q[1]
  OBVIOUS
<1>2. \A i \in 1..(n - 1) : s[i] = q[i + 1]
  OBVIOUS
<1>3. \A i \in DOMAIN s : i + 1 \in DOMAIN q /\ i + 1 # 1 /\ s[i] = q[i + 1]
  BY <1>1, <1>2
<1>4. \A i \in DOMAIN q : i = 1 \/ (i - 1 \in DOMAIN s /\ s[i - 1] = q[i])
  BY <1>1, <1>2
<1>5. 1 \in DOMAIN q
  BY <1>1
<1> HIDE DEF s, n
<1>6. \A x : Queued(q, x) => x \in Head(q).rows \/ Queued(s, x)
  BY <1>1, <1>4 DEF Queued
<1>7. \A x : x \in Head(q).rows \/ Queued(s, x) => Queued(q, x)
  BY <1>1, <1>3, <1>5 DEF Queued
<1>8. ASSUME Apart(q), NEW i \in DOMAIN s, NEW j \in DOMAIN s, i # j
      PROVE  s[i].rows \cap s[j].rows = {}
  <2>1. i \in Nat /\ j \in Nat
    BY <1>1
  <2>2. i + 1 # j + 1
    BY <1>8, <2>1
  <2> QED
    BY <1>3, <1>8, <2>2 DEF Apart
<1>9. ASSUME Apart(q), NEW x \in Head(q).rows, NEW i \in DOMAIN s
      PROVE  x \notin s[i].rows
  BY <1>1, <1>3, <1>5, <1>9 DEF Apart
<1>10. Apart(q) => Apart(s) /\ \A x : x \in Head(q).rows => ~Queued(s, x)
  BY <1>8, <1>9 DEF Apart, Queued
<1> QED
  BY <1>6, <1>7, <1>10 DEF s

(* Putting a job in front of a queue puts its rows there. *)
LEMMA FrontRows ==
    ASSUME NEW q \in Seq(Job), NEW j \in Job
    PROVE  /\ \A x : Queued(<<j>> \o q, x) <=> x \in j.rows \/ Queued(q, x)
           /\ Apart(q) /\ (\A x : x \in j.rows => ~Queued(q, x)) => Apart(<<j>> \o q)
<1> DEFINE s == <<j>> \o q
<1>1. s \in Seq(Job) /\ s # <<>>
  OBVIOUS
<1>2. Head(s) = j /\ Tail(s) = q
  OBVIOUS
<1> HIDE DEF s
<1>3. \A x : Queued(s, x) <=> x \in j.rows \/ Queued(q, x)
  BY ZenonT(30), <1>1, <1>2, TailRows
<1> DEFINE n == Len(s)
<1>4. n \in Nat \ {0} /\ DOMAIN s = 1..n /\ s[1] = j
  BY <1>1, <1>2
<1>5. \A i \in DOMAIN s : i = 1 \/ (i - 1 \in DOMAIN q /\ q[i - 1] = s[i])
  BY <1>1, <1>2, <1>4
<1>6. ASSUME Apart(q), \A x : x \in j.rows => ~Queued(q, x),
             NEW a \in DOMAIN s, NEW b \in DOMAIN s, a # b
      PROVE  s[a].rows \cap s[b].rows = {}
  <2>1. CASE a = 1
    BY <1>4, <1>5, <1>6, <2>1 DEF Queued
  <2>2. CASE b = 1
    BY <1>4, <1>5, <1>6, <2>2 DEF Queued
  <2>3. CASE a # 1 /\ b # 1
    <3>1. a - 1 # b - 1
      BY <1>4, <1>6
    <3> QED
      BY <1>5, <1>6, <2>3, <3>1 DEF Apart
  <2> QED
    BY <2>1, <2>2, <2>3
<1> QED
  BY <1>3, <1>6 DEF Apart, s

(* Appending a job to a queue puts its rows there. *)
LEMMA AppendRows ==
    ASSUME NEW q \in Seq(Job), NEW j \in Job
    PROVE  /\ \A x : Queued(Append(q, j), x) <=> x \in j.rows \/ Queued(q, x)
           /\ Apart(q) /\ (\A x : x \in j.rows => ~Queued(q, x)) => Apart(Append(q, j))
<1> DEFINE s == Append(q, j)
           n == Len(q)
<1>1. n \in Nat /\ DOMAIN q = 1..n /\ DOMAIN s = 1..(n + 1) /\ s[n + 1] = j
  OBVIOUS
<1>2. \A i \in 1..n : s[i] = q[i]
  OBVIOUS
<1> HIDE DEF s, n
<1>3. \A i \in DOMAIN s : (i = n + 1 /\ s[i] = j) \/ (i \in DOMAIN q /\ s[i] = q[i])
  BY <1>1, <1>2
<1>4. n + 1 \in DOMAIN s /\ \A i \in DOMAIN q : i \in DOMAIN s /\ s[i] = q[i]
  BY <1>1, <1>2
<1>5. \A x : Queued(s, x) <=> x \in j.rows \/ Queued(q, x)
  BY <1>1, <1>3, <1>4 DEF Queued
<1>6. Apart(q) /\ (\A x : x \in j.rows => ~Queued(q, x)) => Apart(s)
  BY <1>3 DEF Apart, Queued
<1> QED
  BY <1>5, <1>6 DEF s

-----------------------------------------------------------------------------
(* Nothing of generation k changes. *)
Same(k) ==
    /\ req'[k] = req[k] /\ buf'[k] = buf[k] /\ flush'[k] = flush[k] /\ todo'[k] = todo[k]
    /\ acc'[k] = acc[k] /\ queue'[k] = queue[k] /\ closed'[k] = closed[k] /\ notify'[k] = notify[k]
    /\ ship'[k] = ship[k] /\ job'[k] = job[k] /\ slot'[k] = slot[k] /\ try'[k] = try[k]
    /\ left'[k] = left[k] /\ tickDone'[k] = tickDone[k] /\ ready'[k] = ready[k] /\ expired'[k] = expired[k]
    /\ stop'[k] = stop[k] /\ pending'[k] = pending[k] /\ work'[k] = work[k] /\ fate'[k] = fate[k]
    /\ seq'[k] = seq[k] /\ seen'[k] = seen[k] /\ doubled'[k] = doubled[k] /\ unsure'[k] = unsure[k]
    /\ requeued'[k] = requeued[k]

(* Same: the steps of a request, Start or Stop. *)
LEMMA SameRequests ==
    ASSUME TypeOK, NEW k \in Gen,
           NEW g \in Gen, k # g, Requests(g) \/ Start(g) \/ StopBegin(g) \/ StopReturn(g)
    PROVE  Same(k)
<1> USE DEF drainVars, queueVars, postVars, ingestVars, shipVars, stopVars, workVars,
   Poster, Drainer
<1>1. ASSUME NEW r \in Row, Record(g, r)
      PROVE  Same(k)
  BY <1>1 DEF TypeOK, Same, Record
<1>2. ASSUME NEW r \in Row, finishHTTPRecord(g, r)
      PROVE  Same(k)
  BY <1>2 DEF TypeOK, Same, finishHTTPRecord, scheduleHTTPDelivery
<1>3. ASSUME Start(g)
      PROVE  Same(k)
  BY <1>3 DEF TypeOK, Same, Start
<1>4. ASSUME StopBegin(g)
      PROVE  Same(k)
  BY <1>4 DEF TypeOK, Same, StopBegin
<1>5. ASSUME StopReturn(g)
      PROVE  Same(k)
  BY <1>5 DEF TypeOK, Same, StopReturn, scheduleHTTPDelivery
<1> QED
  BY <1>1, <1>2, <1>3, <1>4, <1>5 DEF Requests

(* Same: the steps of flushLoop. *)
LEMMA SameFlush ==
    ASSUME TypeOK, NEW k \in Gen,
           NEW g \in Gen, k # g, flushLoop(g)
    PROVE  Same(k)
<1> USE DEF drainVars, queueVars, postVars, ingestVars, shipVars, stopVars, workVars,
   Poster, Drainer
<1>1. ASSUME FlushTick(g)
      PROVE  Same(k)
  BY <1>1 DEF TypeOK, Same, FlushTick
<1>2. ASSUME FlushStop(g)
      PROVE  Same(k)
  BY <1>2 DEF TypeOK, Same, FlushStop
<1>3. ASSUME beginShutdownShipping(g)
      PROVE  Same(k)
  BY <1>3 DEF TypeOK, Same, beginShutdownShipping
<1>4. ASSUME NEW t \in Track, DrainTrack(g, "flush", t)
      PROVE  Same(k)
  BY <1>4 DEF TypeOK, Same, DrainTrack
<1>5. ASSUME FlushEmpty(g)
      PROVE  Same(k)
  BY <1>5 DEF TypeOK, Same, FlushEmpty
<1>6. ASSUME FlushEncode(g)
      PROVE  Same(k)
  BY <1>6 DEF TypeOK, Same, FlushEncode
<1>7. ASSUME FlushEncodeFails(g)
      PROVE  Same(k)
  BY <1>7 DEF TypeOK, Same, FlushEncodeFails, Settle
<1>8. ASSUME enqueueShip(g)
      PROVE  Same(k)
  BY <1>8 DEF TypeOK, Same, enqueueShip, Settle, Signal
<1>9. ASSUME closeQueue(g)
      PROVE  Same(k)
  BY <1>9 DEF TypeOK, Same, closeQueue, Signal
<1> QED
  BY <1>1, <1>2, <1>3, <1>4, <1>5, <1>6, <1>7, <1>8, <1>9 DEF flushLoop, Drainer

(* Same: the steps of shipWithRetryWait or a deadline. *)
LEMMA SamePost ==
    ASSUME TypeOK, NEW k \in Gen,
           NEW g \in Gen, k # g, NEW w \in Poster, shipWithRetryWait(g, w) \/ Expire(g, w)
    PROVE  Same(k)
<1> USE DEF drainVars, queueVars, postVars, ingestVars, shipVars, stopVars, workVars,
   Poster, Drainer
<1>1. ASSUME Expire(g, w)
      PROVE  Same(k)
  BY <1>1 DEF TypeOK, Same, Expire
<1>2. ASSUME Attempt(g, w)
      PROVE  Same(k)
  BY <1>2 DEF TypeOK, Same, Attempt
<1>3. ASSUME try[g][w] = "post", PostOk(g, w)
      PROVE  Same(k)
  BY <1>3 DEF TypeOK, Same, PostOk, PostEnds, IngestTakes
<1>4. ASSUME try[g][w] = "post", PostRefused(g, w)
      PROVE  Same(k)
  BY <1>4 DEF TypeOK, Same, PostRefused, PostEnds, IngestTakes
<1>5. ASSUME NEW taken \in {{}, Body(g, w)}, try[g][w] = "post", PostFails(g, w, taken)
      PROVE  Same(k)
  BY <1>5 DEF TypeOK, Same, PostFails, PostEnds, IngestTakes
<1>6. ASSUME NEW taken \in {{}, Body(g, w)}, try[g][w] = "post", PostCut(g, w, taken)
      PROVE  Same(k)
  BY <1>6 DEF TypeOK, Same, PostCut, PostEnds, IngestTakes
<1>7. ASSUME BackoffOver(g, w)
      PROVE  Same(k)
  BY <1>7 DEF TypeOK, Same, BackoffOver
<1>8. ASSUME BackoffCut(g, w)
      PROVE  Same(k)
  BY <1>8 DEF TypeOK, Same, BackoffCut
<1> QED
  BY <1>1, <1>2, <1>3, <1>4, <1>5, <1>6, <1>7, <1>8 DEF shipWithRetryWait, PostReturns

(* Same: the steps of shipLoop. *)
LEMMA SameShip ==
    ASSUME TypeOK, NEW k \in Gen,
           NEW g \in Gen, k # g, shipLoop(g)
    PROVE  Same(k)
<1> USE DEF drainVars, queueVars, postVars, ingestVars, shipVars, stopVars, workVars,
   Poster, Drainer
<1>1. ASSUME PopTickJob(g)
      PROVE  Same(k)
  BY <1>1 DEF TypeOK, Same, PopTickJob, Pop, StartShip
<1>2. ASSUME PopShutdownJob(g)
      PROVE  Same(k)
  BY <1>2 DEF TypeOK, Same, PopShutdownJob, Pop
<1>3. ASSUME PopWaits(g)
      PROVE  Same(k)
  BY <1>3 DEF TypeOK, Same, PopWaits
<1>4. ASSUME PopWakes(g)
      PROVE  Same(k)
  BY <1>4 DEF TypeOK, Same, PopWakes
<1>5. ASSUME ShutdownJob(g)
      PROVE  Same(k)
  BY <1>5 DEF TypeOK, Same, ShutdownJob, StartShip
<1>6. ASSUME ShutdownBusy(g)
      PROVE  Same(k)
  BY <1>6 DEF TypeOK, Same, ShutdownBusy, Settle
<1>7. ASSUME DropQueued(g)
      PROVE  Same(k)
  BY <1>7 DEF TypeOK, Same, DropQueued, Settle
<1>8. ASSUME ShipRequeue(g)
      PROVE  Same(k)
  BY <1>8 DEF TypeOK, Same, ShipRequeue, AfterShip, pushFront, Signal, EndShip
<1>9. ASSUME ShipSettle(g)
      PROVE  Same(k)
  BY <1>9 DEF TypeOK, Same, ShipSettle, AfterShip, Settle, EndShip
<1>10. ASSUME ShipExit(g)
      PROVE  Same(k)
  BY <1>10 DEF TypeOK, Same, ShipExit
<1>11. ASSUME shipWithRetryWait(g, "ship")
      PROVE  Same(k)
  BY <1>11, SamePost
<1> QED
  BY <1>1, <1>2, <1>3, <1>4, <1>5, <1>6, <1>7, <1>8, <1>9, <1>10, <1>11 DEF shipLoop, Poster

(* Same: the steps of deliverRetiredHTTP. *)
LEMMA SameWork ==
    ASSUME TypeOK, NEW k \in Gen,
           NEW g \in Gen, k # g, deliverRetiredHTTP(g)
    PROVE  Same(k)
<1> USE DEF drainVars, queueVars, postVars, ingestVars, shipVars, stopVars, workVars,
   Poster, Drainer
<1>1. ASSUME WorkCheck(g)
      PROVE  Same(k)
  BY <1>1 DEF TypeOK, Same, WorkCheck
<1>2. ASSUME WorkWait(g)
      PROVE  Same(k)
  BY <1>2 DEF TypeOK, Same, WorkWait
<1>3. ASSUME NEW t \in Track, DrainTrack(g, "work", t)
      PROVE  Same(k)
  BY <1>3 DEF TypeOK, Same, DrainTrack
<1>4. ASSUME WorkEncode(g)
      PROVE  Same(k)
  BY <1>4 DEF TypeOK, Same, WorkEncode
<1>5. ASSUME WorkEncodeFails(g)
      PROVE  Same(k)
  BY <1>5 DEF TypeOK, Same, WorkEncodeFails, WorkEnds, Settle
<1>6. ASSUME WorkBusy(g)
      PROVE  Same(k)
  BY <1>6 DEF TypeOK, Same, WorkBusy, WorkEnds, Settle
<1>7. ASSUME WorkShip(g)
      PROVE  Same(k)
  BY <1>7 DEF TypeOK, Same, WorkShip, StartShip
<1>8. ASSUME WorkSettle(g)
      PROVE  Same(k)
  BY <1>8 DEF TypeOK, Same, WorkSettle, WorkEnds, Settle, EndShip
<1>9. ASSUME shipWithRetryWait(g, "work")
      PROVE  Same(k)
  BY <1>9, SamePost
<1> QED
  BY <1>1, <1>2, <1>3, <1>4, <1>5, <1>6, <1>7, <1>8, <1>9
     DEF deliverRetiredHTTP, Poster, Drainer

(* A step of one generation leaves all others alone. *)
LEMMA OneGenerationSteps ==
    ASSUME TypeOK, NEW k \in Gen, NEW g \in Gen, k # g, Generation(g)
    PROVE  Same(k)
  BY SameRequests, SameFlush, SamePost, SameShip, SameWork DEF Generation

(* A stuttering step leaves every generation alone. *)
LEMMA UnchangedIsSame ==
    ASSUME UNCHANGED vars, NEW k \in Gen
    PROVE  Same(k)
  BY DEF Same, vars, drainVars, queueVars, postVars, ingestVars, shipVars, stopVars,
     workVars
=============================================================================
