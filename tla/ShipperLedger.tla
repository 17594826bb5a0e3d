---------------------------- MODULE ShipperLedger ----------------------------
(* Shipper implements Ledger: where the rows of the ledger are in the code. *)
EXTENDS Shipper

(* drainAndEncode has not returned. *)
OpenBatch(g, d) == IF Draining(g, d) THEN acc[g][d] ELSE {}

(* Bodies: queued, in shipLoop's hands, or encoded and not yet handed on. *)
SealedBatches(g) ==
    {queue[g][i].rows : i \in DOMAIN queue[g]}
        \cup (IF job[g] = NoJob THEN {} ELSE {job[g].rows})
        \cup (IF flush[g] = "push" THEN {acc[g]["flush"]} ELSE {})
        \cup (IF work[g] \in {"slot", "ship"} THEN {acc[g]["work"]} ELSE {})

RowsWithFate(g, fates) == {r \in Row : fate[g][r] \in fates}

L == INSTANCE Ledger WITH
        buffered <- buf,
        open <- [g \in Gen |-> [d \in Drainer |-> OpenBatch(g, d)]],
        sealed <- [g \in Gen |-> SealedBatches(g)],
        delivered <- [g \in Gen |-> RowsWithFate(g, {"ok"})],
        dropped <- [g \in Gen |-> RowsWithFate(g, Dropped)]

(* The shipping side keeps the ledger's promise: every step of flushLoop,
   shipLoop, deliverRetiredHTTP, Stop and the recording requests is one ledger
   step or none.  A batch is never split, merged, reopened, settled twice, or
   settled in part; requeueing and eviction included. *)
KeepsLedger == L!Spec
=============================================================================
