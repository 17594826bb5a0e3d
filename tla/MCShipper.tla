------------------------------ MODULE MCShipper ------------------------------
(* Instances of Shipper: buffer 1 is an HTTP track, 2 an L4 track drained after
   it, as the counter shards and the L4 maps are. *)
EXTENDS ShipperLedger, TLC

CONSTANTS l1         \* an L4 row; every other row is an HTTP row

Tracks == {1, 2}

HttpTracks == {1}

OneTrack == {1}

TrackOfRow == [r \in Row |-> IF r = l1 THEN 2 ELSE 1]

(* HTTP rows are interchangeable. *)
RowSymmetry == Permutations(Row \ {l1})

(* Generations are interchangeable: they meet only at the slots. *)
GenSymmetry == Permutations(Gen)

(* The state without its history variables, for runs none of whose properties
   mention them. *)
NoHistory == <<req, buf, flush, todo, acc, closed, notify, ship, slot, try, left, tickDone,
               ready, expired, stop, pending, work, slots, fate,
               [g \in Gen |-> [i \in DOMAIN queue[g] |-> queue[g][i].rows]],
               [g \in Gen |-> IF job[g] = NoJob THEN <<>> ELSE <<job[g].rows, job[g].shutdown>>]>>

(* Reloads faster than the flush interval, and an ingest slower than the
   reloads: only final and retired HTTP drains happen, encoding works, and no
   deadline cuts a POST.  The case the retired slots exist for. *)
RapidReloads ==
    \A g \in Gen :
        /\ flush[g] = "drain" => ready[g]
        /\ expired[g]["ship"] => ship[g] = "done"
        /\ ~expired[g]["work"]
        /\ \A r \in Row : fate[g][r] # "encode"

(* Up to Stop's return: flushLoop and shipLoop, without the retired worker. *)
BeforeRetirement == \A g \in Gen : stop[g] # "returned"
=============================================================================
