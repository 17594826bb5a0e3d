------------------------------- MODULE Ledger --------------------------------
(***************************************************************************)
(* What the shipping side of apx_stats promises, whatever its goroutines,  *)
(* queues, slots and deadlines do: a recorded row waits in a buffer, goes  *)
(* into one batch, and the batch is delivered or counted dropped, as a     *)
(* whole and once.  A batch being drained may grow; a sealed one may not.  *)
(***************************************************************************)
CONSTANTS
    Gen,     \* app generations
    Row,     \* the rows one generation may record
    Drainer  \* the activities that drain buffers into batches

VARIABLES
    buffered,  \* buffered[g]: rows waiting to be drained
    open,      \* open[g][d]: the batch d is draining
    sealed,    \* sealed[g]: batches encoded and not yet settled
    delivered, \* delivered[g]: rows acknowledged by the ingest
    dropped    \* dropped[g]: rows counted dropped

ledger == <<buffered, open, sealed, delivered, dropped>>

Recorded(g) ==
    buffered[g] \cup UNION {open[g][d] : d \in Drainer} \cup UNION sealed[g]
        \cup delivered[g] \cup dropped[g]

Init ==
    /\ buffered = [g \in Gen |-> {}]
    /\ open = [g \in Gen |-> [d \in Drainer |-> {}]]
    /\ sealed = [g \in Gen |-> {}]
    /\ delivered = [g \in Gen |-> {}]
    /\ dropped = [g \in Gen |-> {}]

Record(g, r) ==
    /\ r \notin Recorded(g)
    /\ buffered' = [buffered EXCEPT ![g] = @ \cup {r}]
    /\ UNCHANGED <<open, sealed, delivered, dropped>>

(* A drain moves what one buffer holds, which may be nothing. *)
Collect(g, d, rows) ==
    /\ buffered' = [buffered EXCEPT ![g] = @ \ rows]
    /\ open' = [open EXCEPT ![g][d] = @ \cup rows]
    /\ UNCHANGED <<sealed, delivered, dropped>>

Seal(g, d) ==
    /\ open[g][d] # {}
    /\ open' = [open EXCEPT ![g][d] = {}]
    /\ sealed' = [sealed EXCEPT ![g] = @ \cup {open[g][d]}]
    /\ UNCHANGED <<buffered, delivered, dropped>>

EncodeFails(g, d) ==
    /\ open' = [open EXCEPT ![g][d] = {}]
    /\ dropped' = [dropped EXCEPT ![g] = @ \cup open[g][d]]
    /\ UNCHANGED <<buffered, sealed, delivered>>

Deliver(g, batch) ==
    /\ sealed' = [sealed EXCEPT ![g] = @ \ {batch}]
    /\ delivered' = [delivered EXCEPT ![g] = @ \cup batch]
    /\ UNCHANGED <<buffered, open, dropped>>

Drop(g, batch) ==
    /\ sealed' = [sealed EXCEPT ![g] = @ \ {batch}]
    /\ dropped' = [dropped EXCEPT ![g] = @ \cup batch]
    /\ UNCHANGED <<buffered, open, delivered>>

Next ==
    \E g \in Gen :
        \/ \E r \in Row : Record(g, r)
        \/ \E d \in Drainer :
              \/ \E rows \in SUBSET buffered[g] : Collect(g, d, rows)
              \/ Seal(g, d) \/ EncodeFails(g, d)
        \/ \E batch \in sealed[g] : Deliver(g, batch) \/ Drop(g, batch)

Spec == Init /\ [][Next]_ledger
=============================================================================
