------------------------------- MODULE Shipper -------------------------------
(***************************************************************************)
(* The shipping side of apx_stats: what happens to a recorded row between  *)
(* the buffers of its app generation and the ingest.  A generation is one  *)
(* StatsApp, built by one Caddy config load; generations overlap freely    *)
(* and share only the process-wide retired ship slots.                     *)
(*                                                                         *)
(* Each generation runs four concurrent activities:                        *)
(*   flush  flushLoop: drains and encodes, never touches the network;      *)
(*   ship   shipLoop: the only consumer of the ship queue;                 *)
(*   work   deliverRetiredHTTP: drains late HTTP rows of a stopped app;    *)
(*   stop   Caddy's call of Stop, and the requests that record rows.       *)
(***************************************************************************)
EXTENDS Naturals, Sequences, FiniteSets

CONSTANTS
    Gen,                \* app generations (config loads)
    Row,                \* the rows one generation may record
    Track,              \* buffers, numbered in the order a drain empties them
    TrackOf,            \* the buffer a row lands in
    HttpTrack,          \* the tracks drainAndEncode(httpOnly = true) empties
    shipQueueCap,       \* ship_queue.go: 2
    RetiredSlots,       \* cap(retiredShipSlots): 2
    maxRetries,         \* retries of a tick or retired-HTTP ship
    shutdownMaxRetries, \* retries of a shutdown ship
    NoJob               \* shipLoop holds no job

(* An encoded batch in the queue.  seq, a history field, is its drain order. *)
Job == [rows : SUBSET Row, shutdown : BOOLEAN, seq : Nat]

ASSUME ShipperAssumption ==
    /\ IsFiniteSet(Gen)
    /\ Track \subseteq Nat
    /\ TrackOf \in [Row -> Track]
    /\ HttpTrack \subseteq Track
    /\ shipQueueCap \in Nat \ {0}
    /\ RetiredSlots \in Nat
    /\ maxRetries \in Nat
    /\ shutdownMaxRetries \in Nat
    /\ NoJob \notin Job

Poster == {"ship", "work"}      \* the two callers of shipWithRetryWait

Drainer == {"flush", "work"}    \* the two callers of drainAndEncode

(* How a row ended: delivered ("ok"), or the reason it was counted dropped. *)
Dropped == {"encode", "queue", "busy", "failed"}

Fate == {"pending", "ok"} \cup Dropped

VARIABLES
    req,      \* req[g][r]: what the request recording r has done so far
    buf,      \* rows in g's buffers
    flush,    \* flushLoop's control point
    todo,     \* todo[g][d]: tracks drainer d has still to empty
    acc,      \* acc[g][d]: rows d has drained (and, once encoded, its body)
    queue,    \* shipQ.jobs
    closed,   \* shipQ.closed
    notify,   \* a token waits in shipQ.notify
    ship,     \* shipLoop's control point
    job,      \* the job shipLoop holds
    slot,     \* shipLoop's local variable of the same name
    try,      \* try[g][w]: control point, then result, of shipWithRetryWait
    left,     \* left[g][w]: retries it may still make
    tickDone, \* tickCtx is cancelled
    ready,    \* shutdownReady is closed: the shutdown deadline runs
    expired,  \* expired[g][w]: w's deadline has passed
    stop,     \* Caddy's call of Stop
    pending,  \* httpDeliveryPending
    work,     \* deliverRetiredHTTP's control point ("off": not running)
    slots,    \* tokens in retiredShipSlots, process-wide
    fate,     \* fate[g][r]
    seq,      \* history: batches encoded by flushLoop
    seen,     \* history: rows the ingest has taken
    doubled,  \* history: rows the ingest has taken more than once
    unsure,   \* history: rows it took in a POST that then failed by itself
    requeued  \* history: rows pushFront put back

drainVars == <<buf, todo, acc>>
queueVars == <<queue, closed, notify>>
postVars == <<try, left>>
ingestVars == <<seen, doubled, unsure>>
shipVars == <<ship, job, slot>>
stopVars == <<tickDone, ready, stop>>
workVars == <<pending, work>>
vars == <<req, drainVars, flush, queueVars, shipVars, postVars, stopVars, expired,
          workVars, slots, fate, seq, ingestVars, requeued>>

TypeOK ==
    /\ req \in [Gen -> [Row -> {"none", "recorded", "finished"}]]
    /\ buf \in [Gen -> SUBSET Row]
    /\ flush \in [Gen -> {"off", "idle", "begin", "drain", "push", "close", "done"}]
    /\ todo \in [Gen -> [Drainer -> SUBSET Track]]
    /\ acc \in [Gen -> [Drainer -> SUBSET Row]]
    /\ queue \in [Gen -> Seq(Job)]
    /\ closed \in [Gen -> BOOLEAN]
    /\ notify \in [Gen -> BOOLEAN]
    /\ ship \in [Gen -> {"off", "pop", "wait", "ready", "ship", "dropq", "dropwait", "done"}]
    /\ job \in [Gen -> Job \cup {NoJob}]
    /\ slot \in [Gen -> BOOLEAN]
    /\ try \in [Gen -> [Poster -> {"idle", "check", "post", "backoff", "ok", "permanent", "failed"}]]
    /\ left \in [Gen -> [Poster -> Nat]]
    /\ tickDone \in [Gen -> BOOLEAN]
    /\ ready \in [Gen -> BOOLEAN]
    /\ expired \in [Gen -> [Poster -> BOOLEAN]]
    /\ stop \in [Gen -> {"no", "waiting", "returned"}]
    /\ pending \in [Gen -> BOOLEAN]
    /\ work \in [Gen -> {"off", "check", "wait", "drain", "slot", "ship"}]
    /\ slots \in Nat
    /\ fate \in [Gen -> [Row -> Fate]]
    /\ seq \in [Gen -> Nat]
    /\ seen \in [Gen -> SUBSET Row]
    /\ doubled \in [Gen -> SUBSET Row]
    /\ unsure \in [Gen -> SUBSET Row]
    /\ requeued \in [Gen -> SUBSET Row]

Init ==
    /\ req = [g \in Gen |-> [r \in Row |-> "none"]]
    /\ buf = [g \in Gen |-> {}]
    /\ flush = [g \in Gen |-> "off"]
    /\ todo = [g \in Gen |-> [d \in Drainer |-> {}]]
    /\ acc = [g \in Gen |-> [d \in Drainer |-> {}]]
    /\ queue = [g \in Gen |-> <<>>]
    /\ closed = [g \in Gen |-> FALSE]
    /\ notify = [g \in Gen |-> FALSE]
    /\ ship = [g \in Gen |-> "off"]
    /\ job = [g \in Gen |-> NoJob]
    /\ slot = [g \in Gen |-> FALSE]
    /\ try = [g \in Gen |-> [w \in Poster |-> "idle"]]
    /\ left = [g \in Gen |-> [w \in Poster |-> 0]]
    /\ tickDone = [g \in Gen |-> FALSE]
    /\ ready = [g \in Gen |-> FALSE]
    /\ expired = [g \in Gen |-> [w \in Poster |-> FALSE]]
    /\ stop = [g \in Gen |-> "no"]
    /\ pending = [g \in Gen |-> FALSE]
    /\ work = [g \in Gen |-> "off"]
    /\ slots = 0
    /\ fate = [g \in Gen |-> [r \in Row |-> "pending"]]
    /\ seq = [g \in Gen |-> 0]
    /\ seen = [g \in Gen |-> {}]
    /\ doubled = [g \in Gen |-> {}]
    /\ unsure = [g \in Gen |-> {}]
    /\ requeued = [g \in Gen |-> {}]

-----------------------------------------------------------------------------
(* Helpers *)

RowsOf(t) == {r \in Row : TrackOf[r] = t}

Http(r) == TrackOf[r] \in HttpTrack

(* Every row of a batch ends the same way, and is counted once. *)
Settle(g, rows, f) ==
    fate' = [fate EXCEPT ![g] = [r \in Row |-> IF r \in rows THEN f ELSE fate[g][r]]]

Body(g, w) == IF w = "ship" THEN job[g].rows ELSE acc[g]["work"]

(* signal: a non-blocking send on a channel of capacity one. *)
Signal(g) == notify' = [notify EXCEPT ![g] = TRUE]

(* Faulty: admits one holder too many. *)
SlotFreeOneTooMany == slots <= RetiredSlots

(* acquireRetiredSlot: a non-blocking send on retiredShipSlots. *)
SlotFree == slots < RetiredSlots

-----------------------------------------------------------------------------
(* Requests and Caddy *)

(* The Record* calls of one request: the row lands in its track's buffer.  A
   request may outlive Stop, and http may serve before apx_stats has started. *)
Record(g, r) ==
    /\ req[g][r] = "none"
    /\ req' = [req EXCEPT ![g][r] = IF Http(r) THEN "recorded" ELSE "finished"]
    /\ buf' = [buf EXCEPT ![g] = @ \cup {r}]
    /\ UNCHANGED <<flush, todo, acc, queueVars, shipVars, postVars, stopVars, expired,
                   workVars, slots, fate, seq, ingestVars, requeued>>

(* Faulty: a signal to a running worker is lost. *)
scheduleOnlyIfIdle(g, wanted) ==
    /\ pending' = [pending EXCEPT ![g] = @ \/ (wanted /\ work[g] = "off")]
    /\ work' = [work EXCEPT ![g] = IF wanted /\ @ = "off" THEN "check" ELSE @]

(* scheduleHTTPDeliveryLocked, if it is called: leave a signal, and start the
   worker if it is idle. *)
scheduleHTTPDelivery(g, wanted) ==
    /\ pending' = [pending EXCEPT ![g] = @ \/ wanted]
    /\ work' = [work EXCEPT ![g] = IF wanted /\ @ = "off" THEN "check" ELSE @]

(* Faulty: Stop never marks HTTP recording retired. *)
neverRetired(g) == FALSE

(* httpRetired is set in the critical section in which Stop schedules. *)
httpRetired(g) == stop[g] = "returned"

finishHTTPRecord(g, r) ==
    /\ req[g][r] = "recorded"
    /\ req' = [req EXCEPT ![g][r] = "finished"]
    /\ scheduleHTTPDelivery(g, httpRetired(g))
    /\ UNCHANGED <<drainVars, flush, queueVars, shipVars, postVars, stopVars, expired,
                   slots, fate, seq, ingestVars, requeued>>

Start(g) ==
    /\ flush[g] = "off"
    /\ flush' = [flush EXCEPT ![g] = "idle"]
    /\ ship' = [ship EXCEPT ![g] = "pop"]
    /\ UNCHANGED <<req, drainVars, queueVars, job, slot, postVars, stopVars, expired,
                   workVars, slots, fate, seq, ingestVars, requeued>>

(* Stop up to awaitShipper: stopCh is closed.  Caddy stops only started apps. *)
StopBegin(g) ==
    /\ flush[g] # "off" /\ stop[g] = "no"
    /\ stop' = [stop EXCEPT ![g] = "waiting"]
    /\ UNCHANGED <<req, drainVars, flush, queueVars, shipVars, postVars, tickDone, ready,
                   expired, workVars, slots, fate, seq, ingestVars, requeued>>

(* awaitShipper returns on shipDone or on its timer, which may fire at any
   moment; Stop then retires HTTP recording and returns. *)
StopReturn(g) ==
    /\ stop[g] = "waiting"
    /\ stop' = [stop EXCEPT ![g] = "returned"]
    /\ scheduleHTTPDelivery(g, TRUE)
    /\ UNCHANGED <<req, drainVars, flush, queueVars, shipVars, postVars, tickDone, ready,
                   expired, slots, fate, seq, ingestVars, requeued>>

-----------------------------------------------------------------------------
(* flushLoop *)

FlushTick(g) ==
    /\ flush[g] = "idle"
    /\ flush' = [flush EXCEPT ![g] = "drain"]
    /\ todo' = [todo EXCEPT ![g]["flush"] = Track]
    /\ UNCHANGED <<req, buf, acc, queueVars, shipVars, postVars, stopVars, expired,
                   workVars, slots, fate, seq, ingestVars, requeued>>

(* The stopCh case: tickCancel ends the retries of tick ships. *)
FlushStop(g) ==
    /\ flush[g] = "idle" /\ stop[g] # "no"
    /\ flush' = [flush EXCEPT ![g] = "begin"]
    /\ tickDone' = [tickDone EXCEPT ![g] = TRUE]
    /\ UNCHANGED <<req, drainVars, queueVars, shipVars, postVars, ready, stop, expired,
                   workVars, slots, fate, seq, ingestVars, requeued>>

(* The shutdown deadline starts, then the final drain. *)
beginShutdownShipping(g) ==
    /\ flush[g] = "begin"
    /\ flush' = [flush EXCEPT ![g] = "drain"]
    /\ ready' = [ready EXCEPT ![g] = TRUE]
    /\ todo' = [todo EXCEPT ![g]["flush"] = Track]
    /\ UNCHANGED <<req, buf, acc, queueVars, shipVars, postVars, tickDone, stop, expired,
                   workVars, slots, fate, seq, ingestVars, requeued>>

Draining(g, d) == IF d = "flush" THEN flush[g] = "drain" ELSE work[g] = "drain"

(* drainAndEncode empties one buffer at a time, each under its own lock, so a
   request may record between two of these steps. *)
DrainTrack(g, d, t) ==
    /\ Draining(g, d) /\ t \in todo[g][d] /\ \A u \in todo[g][d] : t <= u
    /\ todo' = [todo EXCEPT ![g][d] = @ \ {t}]
    /\ acc' = [acc EXCEPT ![g][d] = @ \cup (buf[g] \cap RowsOf(t))]
    /\ buf' = [buf EXCEPT ![g] = @ \ RowsOf(t)]
    /\ UNCHANGED <<req, flush, queueVars, shipVars, postVars, stopVars, expired,
                   workVars, slots, fate, seq, ingestVars, requeued>>

(* Where flushLoop goes when there is nothing (more) to enqueue. *)
AfterEnqueue(g) == IF ready[g] THEN "close" ELSE "idle"

(* The end of flushLoop's drainAndEncode: nothing was drained, ... *)
FlushEmpty(g) ==
    /\ flush[g] = "drain" /\ todo[g]["flush"] = {} /\ acc[g]["flush"] = {}
    /\ flush' = [flush EXCEPT ![g] = AfterEnqueue(g)]
    /\ UNCHANGED <<req, drainVars, queueVars, shipVars, postVars, stopVars, expired,
                   workVars, slots, fate, seq, ingestVars, requeued>>

(* ... a body, ... *)
FlushEncode(g) ==
    /\ flush[g] = "drain" /\ todo[g]["flush"] = {} /\ acc[g]["flush"] # {}
    /\ flush' = [flush EXCEPT ![g] = "push"]
    /\ seq' = [seq EXCEPT ![g] = @ + 1]
    /\ UNCHANGED <<req, drainVars, queueVars, shipVars, postVars, stopVars, expired,
                   workVars, slots, fate, ingestVars, requeued>>

(* ... or an encode error, which counts the rows dropped. *)
FlushEncodeFails(g) ==
    /\ flush[g] = "drain" /\ todo[g]["flush"] = {} /\ acc[g]["flush"] # {}
    /\ flush' = [flush EXCEPT ![g] = AfterEnqueue(g)]
    /\ acc' = [acc EXCEPT ![g]["flush"] = {}]
    /\ Settle(g, acc[g]["flush"], "encode")
    /\ UNCHANGED <<req, buf, todo, queueVars, shipVars, postVars, stopVars, expired,
                   workVars, slots, seq, ingestVars, requeued>>

(* push drops the head of a full queue; enqueueShip counts it. *)
QueueFull(g) == Len(queue[g]) >= shipQueueCap

(* Faulty: the evicted batch is not counted. *)
EvictedUncounted(g) == {}

EvictedRows(g) == IF QueueFull(g) THEN Head(queue[g]).rows ELSE {}

enqueueShip(g) ==
    /\ flush[g] = "push"
    /\ queue' = [queue EXCEPT ![g] =
                    Append(IF QueueFull(g) THEN Tail(@) ELSE @,
                           [rows |-> acc[g]["flush"], shutdown |-> ready[g], seq |-> seq[g]])]
    /\ Signal(g)
    /\ Settle(g, EvictedRows(g), "queue")
    /\ acc' = [acc EXCEPT ![g]["flush"] = {}]
    /\ flush' = [flush EXCEPT ![g] = AfterEnqueue(g)]
    /\ UNCHANGED <<req, buf, todo, closed, shipVars, postVars, stopVars, expired,
                   workVars, slots, seq, ingestVars, requeued>>

(* Faulty: close does not wake the consumer. *)
closeQuietly(g) ==
    /\ flush[g] = "close"
    /\ closed' = [closed EXCEPT ![g] = TRUE]
    /\ flush' = [flush EXCEPT ![g] = "done"]
    /\ UNCHANGED <<req, drainVars, queue, notify, shipVars, postVars, stopVars, expired,
                   workVars, slots, fate, seq, ingestVars, requeued>>

(* shipQ.close; flushLoop returns and leaves a.wg. *)
closeQueue(g) ==
    /\ flush[g] = "close"
    /\ closed' = [closed EXCEPT ![g] = TRUE]
    /\ Signal(g)
    /\ flush' = [flush EXCEPT ![g] = "done"]
    /\ UNCHANGED <<req, drainVars, queue, shipVars, postVars, stopVars, expired,
                   workVars, slots, fate, seq, ingestVars, requeued>>

-----------------------------------------------------------------------------
(* shipWithRetryWait(ctx, wait, body, retries), run by w for generation g *)

(* Faulty: Stop's tickCancel also cuts the tick POST in flight. *)
CtxCutByStop(g, w) == expired[g][w] \/ (w = "ship" /\ ~job[g].shutdown /\ tickDone[g])

(* ctx cuts an attempt in flight.  A tick job runs under attemptCtx, which the
   shutdown deadline cancels (AfterFunc); every other job under its deadline. *)
CtxDone(g, w) == expired[g][w]

(* wait ends the retries: tickCtx for a tick job, ctx itself otherwise. *)
WaitDone(g, w) ==
    IF w = "ship" /\ ~job[g].shutdown THEN tickDone[g] ELSE expired[g][w]

Expire(g, w) ==
    /\ ~expired[g][w]
    /\ IF w = "ship" THEN ready[g] ELSE try[g][w] # "idle"
    /\ expired' = [expired EXCEPT ![g][w] = TRUE]
    /\ UNCHANGED <<req, drainVars, flush, queueVars, shipVars, postVars, stopVars,
                   workVars, slots, fate, seq, ingestVars, requeued>>

(* The wait.Err() check before each attempt, then the POST goes out. *)
Attempt(g, w) ==
    /\ try[g][w] = "check"
    /\ try' = [try EXCEPT ![g][w] = IF WaitDone(g, w) THEN "failed" ELSE "post"]
    /\ UNCHANGED <<req, drainVars, flush, queueVars, shipVars, left, stopVars, expired,
                   workVars, slots, fate, seq, ingestVars, requeued>>

(* external: the ingest takes the rows, for the first or for another time *)
IngestTakes(g, rows) ==
    /\ seen' = [seen EXCEPT ![g] = @ \cup rows]
    /\ doubled' = [doubled EXCEPT ![g] = @ \cup (seen[g] \cap rows)]

(* shipOnce returns, and with it or after it the loop of attempts: result is the
   loop's return value, or "backoff" when it goes on. *)
PostEnds(g, w, result, taken) ==
    /\ try' = [try EXCEPT ![g][w] = result]
    /\ IngestTakes(g, taken)
    /\ UNCHANGED <<req, drainVars, flush, queueVars, shipVars, stopVars, expired,
                   workVars, slots, fate, seq, requeued>>

PostOk(g, w) == PostEnds(g, w, "ok", Body(g, w)) /\ UNCHANGED <<left, unsure>>

(* 4xx: permanent, the ingest has taken nothing. *)
PostRefused(g, w) == PostEnds(g, w, "permanent", {}) /\ UNCHANGED <<left, unsure>>

(* Faulty: the retry budget is never spent. *)
RetriesEndless(g, w) == FALSE

RetriesSpent(g, w) == left[g][w] = 0

(* 5xx, a transport error or the client's timeout: the ingest may or may not
   have taken the rows.  Retried unless ctx is done or the budget spent. *)
PostFails(g, w, taken) ==
    LET over == CtxDone(g, w) \/ RetriesSpent(g, w)
    IN  /\ PostEnds(g, w, IF over THEN "failed" ELSE "backoff", taken)
        /\ left' = [left EXCEPT ![g][w] = IF over THEN @ ELSE @ - 1]
        /\ unsure' = [unsure EXCEPT ![g] = @ \cup taken]

(* Cut by ctx, again before or after the ingest took the rows. *)
PostCut(g, w, taken) ==
    /\ CtxDone(g, w)
    /\ PostEnds(g, w, "failed", taken)
    /\ UNCHANGED <<left, unsure>>

PostReturns(g, w) ==
    /\ try[g][w] = "post"
    /\ \/ PostOk(g, w) \/ PostRefused(g, w)
       \/ \E taken \in {{}, Body(g, w)} : PostFails(g, w, taken) \/ PostCut(g, w, taken)

(* The backoff select: the timer, or one of the two contexts. *)
BackoffOver(g, w) ==
    /\ try[g][w] = "backoff"
    /\ try' = [try EXCEPT ![g][w] = "check"]
    /\ UNCHANGED <<req, drainVars, flush, queueVars, shipVars, left, stopVars, expired,
                   workVars, slots, fate, seq, ingestVars, requeued>>

BackoffCut(g, w) ==
    /\ try[g][w] = "backoff" /\ (CtxDone(g, w) \/ WaitDone(g, w))
    /\ try' = [try EXCEPT ![g][w] = "failed"]
    /\ UNCHANGED <<req, drainVars, flush, queueVars, shipVars, left, stopVars, expired,
                   workVars, slots, fate, seq, ingestVars, requeued>>

Returned == {"ok", "permanent", "failed"}

(* Faulty: only a transient failure counts as one. *)
RefusedCountsOk(g, w) == IF try[g][w] = "failed" THEN "failed" ELSE "ok"

(* dropRows after a failed ship.  The labels deadline, permanent and exhausted
   of shipFailureResult only feed a metric and are one here. *)
ShipResult(g, w) == IF try[g][w] = "ok" THEN "ok" ELSE "failed"

EndShip(g, w) ==
    /\ try' = [try EXCEPT ![g][w] = "idle"]
    /\ left' = [left EXCEPT ![g][w] = 0]

-----------------------------------------------------------------------------
(* shipLoop *)

StartShip(g, w, retries) ==
    /\ try' = [try EXCEPT ![g][w] = "check"]
    /\ left' = [left EXCEPT ![g][w] = retries]

(* pop returns a job.  A job of the shutdown phase must wait for shutdownReady;
   a tick job ships at once unless Stop has cancelled tickCtx. *)
NeedsShutdown(g) == Head(queue[g]).shutdown \/ tickDone[g]

Pop(g) ==
    /\ ship[g] = "pop" /\ queue[g] # <<>>
    /\ job' = [job EXCEPT ![g] = Head(queue[g])]
    /\ queue' = [queue EXCEPT ![g] = Tail(@)]
    /\ UNCHANGED <<req, drainVars, flush, closed, notify, slot, stopVars, expired,
                   workVars, slots, fate, seq, ingestVars, requeued>>

PopTickJob(g) ==
    /\ Pop(g) /\ ~NeedsShutdown(g)
    /\ ship' = [ship EXCEPT ![g] = "ship"]
    /\ StartShip(g, "ship", maxRetries)

PopShutdownJob(g) ==
    /\ Pop(g) /\ NeedsShutdown(g)
    /\ ship' = [ship EXCEPT ![g] = "ready"]
    /\ UNCHANGED postVars

(* Faulty: pop looks at closed before it looks at the queue. *)
PopEndsClosed(g) == closed[g]

(* pop returns ok = false. *)
PopEnds(g) == queue[g] = <<>> /\ closed[g]

(* pop on an empty open queue waits for a token on notify, then looks again. *)
PopWaits(g) ==
    /\ ship[g] \in {"pop", "dropq"} /\ queue[g] = <<>> /\ ~PopEnds(g)
    /\ ship' = [ship EXCEPT ![g] = IF @ = "pop" THEN "wait" ELSE "dropwait"]
    /\ UNCHANGED <<req, drainVars, flush, queueVars, job, slot, postVars, stopVars, expired,
                   workVars, slots, fate, seq, ingestVars, requeued>>

PopWakes(g) ==
    /\ ship[g] \in {"wait", "dropwait"} /\ notify[g]
    /\ notify' = [notify EXCEPT ![g] = FALSE]
    /\ ship' = [ship EXCEPT ![g] = IF @ = "wait" THEN "pop" ELSE "dropq"]
    /\ UNCHANGED <<req, drainVars, flush, queue, closed, job, slot, postVars, stopVars,
                   expired, workVars, slots, fate, seq, ingestVars, requeued>>

(* A job of the shutdown phase waits for shutdownReady, becomes a shutdown job
   and needs a slot, which shipLoop keeps for the jobs that follow. *)
ShutdownJob(g) ==
    /\ ship[g] = "ready" /\ ready[g]
    /\ slot[g] \/ SlotFree
    /\ job' = [job EXCEPT ![g].shutdown = TRUE]
    /\ slots' = IF slot[g] THEN slots ELSE slots + 1
    /\ slot' = [slot EXCEPT ![g] = TRUE]
    /\ ship' = [ship EXCEPT ![g] = "ship"]
    /\ StartShip(g, "ship", shutdownMaxRetries)
    /\ UNCHANGED <<req, drainVars, flush, queueVars, stopVars, expired, workVars, fate,
                   seq, ingestVars, requeued>>

(* No slot: the job is dropped, and dropQueued drops the rest of the queue. *)
ShutdownBusy(g) ==
    /\ ship[g] = "ready" /\ ready[g]
    /\ ~slot[g] /\ ~SlotFree
    /\ Settle(g, job[g].rows, "busy")
    /\ job' = [job EXCEPT ![g] = NoJob]
    /\ ship' = [ship EXCEPT ![g] = "dropq"]
    /\ UNCHANGED <<req, drainVars, flush, queueVars, slot, postVars, stopVars, expired,
                   workVars, slots, seq, ingestVars, requeued>>

(* One turn of dropQueued's loop, which goes on until the queue is closed. *)
DropQueued(g) ==
    /\ ship[g] = "dropq" /\ queue[g] # <<>>
    /\ Settle(g, Head(queue[g]).rows, "busy")
    /\ queue' = [queue EXCEPT ![g] = Tail(@)]
    /\ UNCHANGED <<req, drainVars, flush, closed, notify, shipVars, postVars, stopVars,
                   expired, workVars, slots, seq, ingestVars, requeued>>

(* Faulty: requeue behind what was drained later. *)
pushBack(g) ==
    /\ queue' = [queue EXCEPT ![g] = Append(@, job[g])]
    /\ Signal(g)

(* pushFront has no capacity check. *)
pushFront(g) ==
    /\ queue' = [queue EXCEPT ![g] = <<job[g]>> \o @]
    /\ Signal(g)

(* Stop ended the retries of a tick job: it is retried in the shutdown phase. *)
Requeues(g) == ~job[g].shutdown /\ try[g]["ship"] = "failed" /\ tickDone[g]

(* The switch after shipWithRetryWait. *)
AfterShip(g) ==
    /\ ship[g] = "ship" /\ try[g]["ship"] \in Returned
    /\ ship' = [ship EXCEPT ![g] = "pop"]
    /\ job' = [job EXCEPT ![g] = NoJob]
    /\ EndShip(g, "ship")
    /\ UNCHANGED <<req, drainVars, flush, closed, slot, stopVars, expired, workVars,
                   slots, seq, ingestVars>>

ShipRequeue(g) ==
    /\ AfterShip(g) /\ Requeues(g)
    /\ pushFront(g)
    /\ requeued' = [requeued EXCEPT ![g] = @ \cup job[g].rows]
    /\ UNCHANGED fate

ShipSettle(g) ==
    /\ AfterShip(g) /\ ~Requeues(g)
    /\ Settle(g, job[g].rows, ShipResult(g, "ship"))
    /\ UNCHANGED <<queue, notify, requeued>>

(* The deferred calls of shipLoop: give the slot back, cancel shutdownCtx (and,
   through it, attemptCtx), close shipDone. *)
ShipExit(g) ==
    /\ ship[g] \in {"pop", "dropq"} /\ PopEnds(g)
    /\ ship' = [ship EXCEPT ![g] = "done"]
    /\ slots' = IF slot[g] THEN slots - 1 ELSE slots
    /\ slot' = [slot EXCEPT ![g] = FALSE]
    /\ expired' = [expired EXCEPT ![g]["ship"] = TRUE]
    /\ UNCHANGED <<req, drainVars, flush, queueVars, job, postVars, stopVars,
                   workVars, fate, seq, ingestVars, requeued>>

-----------------------------------------------------------------------------
(* deliverRetiredHTTP *)

(* Take the pending signal, or finish: both under httpDeliveryMu. *)
WorkCheck(g) ==
    /\ work[g] = "check"
    /\ work' = [work EXCEPT ![g] = IF pending[g] THEN "wait" ELSE "off"]
    /\ pending' = [pending EXCEPT ![g] = FALSE]
    /\ UNCHANGED <<req, drainVars, flush, queueVars, shipVars, postVars, stopVars, expired,
                   slots, fate, seq, ingestVars, requeued>>

(* Faulty: the worker does not wait for flushLoop. *)
WgIgnored(g) == TRUE

(* a.wg.Wait returns: flushLoop is out of the way. *)
WgDone(g) == flush[g] = "done"

WorkWait(g) ==
    /\ work[g] = "wait" /\ WgDone(g)
    /\ work' = [work EXCEPT ![g] = "drain"]
    /\ todo' = [todo EXCEPT ![g]["work"] = HttpTrack]
    /\ UNCHANGED <<req, buf, acc, flush, queueVars, shipVars, postVars, stopVars, expired,
                   pending, slots, fate, seq, ingestVars, requeued>>

(* Faulty: the batch stays in the worker's hands. *)
WorkKeeps(g, f) ==
    /\ Settle(g, acc[g]["work"], f)
    /\ UNCHANGED acc
    /\ work' = [work EXCEPT ![g] = "check"]

(* The worker is done with its batch and looks for another signal. *)
WorkEnds(g, f) ==
    /\ Settle(g, acc[g]["work"], f)
    /\ acc' = [acc EXCEPT ![g]["work"] = {}]
    /\ work' = [work EXCEPT ![g] = "check"]

WorkEncode(g) ==
    /\ work[g] = "drain" /\ todo[g]["work"] = {} /\ acc[g]["work"] # {}
    /\ work' = [work EXCEPT ![g] = "slot"]
    /\ UNCHANGED <<req, drainVars, flush, queueVars, shipVars, postVars, stopVars, expired,
                   pending, slots, fate, seq, ingestVars, requeued>>

(* An encode error, or nothing to encode. *)
WorkEncodeFails(g) ==
    /\ work[g] = "drain" /\ todo[g]["work"] = {}
    /\ WorkEnds(g, "encode")
    /\ UNCHANGED <<req, buf, todo, flush, queueVars, shipVars, postVars, stopVars, expired,
                   pending, slots, seq, ingestVars, requeued>>

WorkBusy(g) ==
    /\ work[g] = "slot" /\ ~SlotFree
    /\ WorkEnds(g, "busy")
    /\ UNCHANGED <<req, buf, todo, flush, queueVars, shipVars, postVars, stopVars, expired,
                   pending, slots, seq, ingestVars, requeued>>

(* With a slot, and under a deadline of this batch's own. *)
WorkShip(g) ==
    /\ work[g] = "slot" /\ SlotFree
    /\ slots' = slots + 1
    /\ work' = [work EXCEPT ![g] = "ship"]
    /\ StartShip(g, "work", maxRetries)
    /\ UNCHANGED <<req, drainVars, flush, queueVars, shipVars, stopVars, expired, pending,
                   fate, seq, ingestVars, requeued>>

WorkSettle(g) ==
    /\ work[g] = "ship" /\ try[g]["work"] \in Returned
    /\ slots' = slots - 1
    /\ WorkEnds(g, ShipResult(g, "work"))
    /\ EndShip(g, "work")
    /\ expired' = [expired EXCEPT ![g]["work"] = FALSE]
    /\ UNCHANGED <<req, buf, todo, flush, queueVars, shipVars, stopVars, pending, seq,
                   ingestVars, requeued>>

-----------------------------------------------------------------------------
(* Every row recorded, every generation stopped, every goroutine at rest. *)
Quiet(g) == ship[g] = "done" /\ work[g] = "off" /\ stop[g] = "returned"

Terminated ==
    /\ \A g \in Gen : Quiet(g) /\ \A r \in Row : req[g][r] = "finished"
    /\ UNCHANGED vars

Requests(g) == \E r \in Row : Record(g, r) \/ finishHTTPRecord(g, r)

flushLoop(g) ==
    \/ FlushTick(g) \/ FlushStop(g) \/ beginShutdownShipping(g)
    \/ \E t \in Track : DrainTrack(g, "flush", t)
    \/ FlushEmpty(g) \/ FlushEncode(g) \/ FlushEncodeFails(g)
    \/ enqueueShip(g) \/ closeQueue(g)

shipWithRetryWait(g, w) ==
    Attempt(g, w) \/ PostReturns(g, w) \/ BackoffOver(g, w) \/ BackoffCut(g, w)

shipLoop(g) ==
    \/ PopTickJob(g) \/ PopShutdownJob(g) \/ PopWaits(g) \/ PopWakes(g)
    \/ ShutdownJob(g) \/ ShutdownBusy(g) \/ DropQueued(g)
    \/ shipWithRetryWait(g, "ship") \/ ShipRequeue(g) \/ ShipSettle(g) \/ ShipExit(g)

deliverRetiredHTTP(g) ==
    \/ WorkCheck(g) \/ WorkWait(g)
    \/ \E t \in Track : DrainTrack(g, "work", t)
    \/ WorkEncode(g) \/ WorkEncodeFails(g) \/ WorkBusy(g) \/ WorkShip(g)
    \/ shipWithRetryWait(g, "work") \/ WorkSettle(g)

Generation(g) ==
    \/ Requests(g) \/ Start(g) \/ StopBegin(g) \/ StopReturn(g)
    \/ flushLoop(g) \/ shipLoop(g) \/ deliverRetiredHTTP(g)
    \/ \E w \in Poster : Expire(g, w)

Next == (\E g \in Gen : Generation(g)) \/ Terminated

Spec == Init /\ [][Next]_vars

(* Every goroutine that can step does so eventually: the Go scheduler is fair,
   awaitShipper has a timer, and the client's timeout ends every POST.  A
   select with both cases ready picks at random, so stopCh is not passed over
   for ever (SF).  A request that records also finishes.  Nothing forces a
   record, a Start, a Stop or an expiry. *)
Fairness ==
    \A g \in Gen :
        /\ WF_vars(flushLoop(g)) /\ SF_vars(FlushStop(g))
        /\ WF_vars(shipLoop(g))
        /\ WF_vars(deliverRetiredHTTP(g))
        /\ WF_vars(StopReturn(g))
        /\ \A r \in Row : WF_vars(finishHTTPRecord(g, r))

FairSpec == Spec /\ Fairness

-----------------------------------------------------------------------------
(* Properties *)

JobRows(g) == IF job[g] = NoJob THEN {} ELSE job[g].rows

Queued(q, r) == \E i \in DOMAIN q : r \in q[i].rows

Apart(q) == \A i, j \in DOMAIN q : i # j => q[i].rows \cap q[j].rows = {}

ConservationOf(g) ==
    LET F == acc[g]["flush"]
        W == acc[g]["work"]
        J == JobRows(g)
    IN  /\ \A r \in Row :
              (req[g][r] # "none" /\ fate[g][r] = "pending")
                <=> (r \in buf[g] \cup F \cup W \cup J \/ Queued(queue[g], r))
        /\ \A r \in Row : fate[g][r] # "pending" => req[g][r] # "none"
        /\ buf[g] \cap (F \cup W \cup J) = {} /\ F \cap (W \cup J) = {} /\ W \cap J = {}
        /\ \A r \in buf[g] \cup F \cup W \cup J : ~Queued(queue[g], r)
        /\ Apart(queue[g])

(* A recorded row is in exactly one place - a buffer, a batch being drained,
   the queue, shipLoop's or the worker's hands - until it is delivered or
   counted dropped, and then it is nowhere: no path of flushLoop, enqueueShip,
   shipLoop, dropQueued or deliverRetiredHTTP loses a row silently, counts it
   twice or ships it in two batches. *)
Conservation == \A g \in Gen : ConservationOf(g)

(* The activities that own a token of retiredShipSlots. *)
SlotHolders == {g \in Gen : slot[g]} \X {"ship"} \cup {g \in Gen : work[g] = "ship"} \X {"work"}

(* retiredShipSlots holds one token per stopping shipLoop or retired worker
   that is shipping, over all generations: every exit path gives its token back
   exactly once, and the process-wide bound on retired shipping holds. *)
SlotAccounting ==
    /\ slots = Cardinality(SlotHolders)
    /\ slots <= RetiredSlots

(* The retired-HTTP worker never drains while flushLoop might, although Stop can
   return (and schedule the worker) before the final drain ("never drain
   alongside it"). *)
NoConcurrentDrain ==
    \A g \in Gen : work[g] \in {"drain", "slot", "ship"} => flush[g] = "done"

(* A row is taken twice by the ingest only if an earlier POST of it was taken
   and then failed by itself (5xx, broken connection, client timeout): Stop
   never cuts a POST that is sent again afterwards, which is why a tick ship
   waits on one context and is cut by another. *)
ResendOnlyAfterLostAnswer == \A g \in Gen : doubled[g] \subseteq unsure[g]

(* Batches ship in the order they were drained: the queue is sorted by age, and
   the job shipLoop holds is older than everything queued, also when pushFront
   puts it back while flushLoop pushes. *)
OldestFirst ==
    \A g \in Gen :
        /\ \A i, j \in DOMAIN queue[g] : i < j => queue[g][i].seq < queue[g][j].seq
        /\ job[g] # NoJob => \A i \in DOMAIN queue[g] : job[g].seq < queue[g][i].seq

(* shipDone, on which Stop waits, closes only when the final drain is over and
   nothing of it is queued or in hand any more. *)
DoneMeansShipped ==
    \A g \in Gen : ship[g] = "done" =>
        flush[g] = "done" /\ queue[g] = <<>> /\ job[g] = NoJob /\ acc[g]["flush"] = {}

(* No late HTTP row is left behind: once Stop has returned, shipLoop has ended
   and the worker is idle, every HTTP row whose request is over has been
   delivered or counted, whenever it was recorded. *)
LateHttpRowsSettled ==
    \A g \in Gen, r \in Row :
        Quiet(g) /\ Http(r) /\ req[g][r] = "finished" => fate[g][r] # "pending"

(* The counters agree with the ingest: what counts as delivered was taken, and
   what is dropped before its POST (evicted, no slot, encode error) was taken
   only if it is a batch Stop put back after an attempt. *)
CountersAgreeWithIngest ==
    \A g \in Gen, r \in Row :
        /\ fate[g][r] = "ok" => r \in seen[g]
        /\ fate[g][r] \in {"queue", "busy", "encode"} /\ r \in seen[g] => r \in requeued[g]

(* Once Stop is called the final drain is shipped or dropped and shipLoop ends,
   whatever the ingest does. *)
StopDrains == \A g \in Gen : stop[g] # "no" ~> ship[g] = "done"

(* Every HTTP row a started generation records is eventually delivered or
   counted, also one recorded after Stop. *)
HttpRowsSettle ==
    \A g \in Gen, r \in Row :
        (Http(r) /\ req[g][r] # "none" /\ flush[g] # "off") ~> (fate[g][r] # "pending")

-----------------------------------------------------------------------------
(* The inductive invariant behind the safety properties *)

(* Where the goroutines of one generation stand relative to each other. *)
ControlOf(g) ==
    /\ flush[g] = "off" <=> ship[g] = "off"
    /\ flush[g] = "off" => stop[g] = "no" /\ queue[g] = <<>>
    /\ flush[g] = "begin" => tickDone[g]
    /\ flush[g] \in {"close", "done"} => ready[g]
    /\ ready[g] => tickDone[g]
    /\ closed[g] <=> flush[g] = "done"
    /\ acc[g]["flush"] # {} => flush[g] \in {"drain", "push"}
    /\ job[g] # NoJob <=> ship[g] \in {"ready", "ship"}
    /\ try[g]["ship"] # "idle" <=> ship[g] = "ship"
    /\ ship[g] = "done" => queue[g] = <<>> /\ flush[g] = "done"
    /\ stop[g] # "returned" => work[g] = "off"
    /\ pending[g] => work[g] # "off"
    /\ work[g] \in {"drain", "slot", "ship"} => flush[g] = "done"
    /\ acc[g]["work"] # {} => work[g] \in {"drain", "slot", "ship"}
    /\ try[g]["work"] # "idle" <=> work[g] = "ship"

Control == \A g \in Gen : ControlOf(g)

(* A late HTTP row still in its buffer has a drain ahead of it. *)
AwaitedOf(g) ==
    httpRetired(g) =>
        \A r \in buf[g] : Http(r) /\ req[g][r] = "finished" =>
            \/ pending[g]
            \/ work[g] = "wait"
            \/ work[g] = "drain" /\ TrackOf[r] \in todo[g]["work"]

LateRowsAwaited == \A g \in Gen : AwaitedOf(g)

(* What is still to be sent was not taken before, unless its answer was lost or
   its deadline is over, in which case it is not sent again. *)
UnsentOf(g) ==
    LET Fresh(rows) == rows \cap seen[g] = {}
        Sendable(rows) == rows \cap seen[g] \subseteq unsure[g]
    IN  /\ doubled[g] \subseteq unsure[g]
        /\ \A r \in Row : r \in seen[g] => req[g][r] # "none"
        /\ Fresh(buf[g]) /\ Fresh(acc[g]["flush"])
        /\ work[g] \in {"drain", "slot"} => Fresh(acc[g]["work"])
        /\ try[g]["ship"] = "post" => Sendable(JobRows(g))
        /\ try[g]["work"] = "post" => Sendable(acc[g]["work"])
        /\ ~expired[g]["ship"] /\ try[g]["ship"] # "ok" => Sendable(JobRows(g))
        /\ ~expired[g]["ship"] =>
              \A r \in Row : Queued(queue[g], r) /\ r \in seen[g] => r \in unsure[g]
        /\ ~expired[g]["work"] /\ try[g]["work"] \notin {"idle", "ok"} => Sendable(acc[g]["work"])
        /\ expired[g]["ship"] => ready[g]
        /\ expired[g]["work"] => work[g] = "ship"

UnsentOrUnsure == \A g \in Gen : UnsentOf(g)

IInv ==
    /\ TypeOK /\ Control /\ SlotAccounting /\ Conservation
    /\ LateRowsAwaited /\ UnsentOrUnsure

-----------------------------------------------------------------------------
(* What the documentation says and the code does not do *)

(* README.md: "At most two encoded batches wait to ship." *)
QueueBound == \A g \in Gen : Len(queue[g]) <= shipQueueCap

(* ship_queue.go: a body whose retries Stop ended is put back "at the head" to
   "retry it under the shutdown deadline instead of dropping it", so the queue
   never evicts it. *)
RequeuedIsRetried ==
    \A g \in Gen : \A r \in requeued[g] : fate[g][r] # "queue"

(* README.md: "a graceful reload loses nothing": once a stopped generation is at
   rest, every row whose recording is over is delivered or counted, L4 rows
   included. *)
ReloadLosesNothing ==
    \A g \in Gen, r \in Row :
        Quiet(g) /\ req[g][r] = "finished" => fate[g][r] # "pending"
=============================================================================
