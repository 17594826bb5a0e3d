------------------------------ MODULE NodeState ------------------------------
(***************************************************************************)
(* Node-state minutes: the sampler folds each second into the current      *)
(* minute and closes it when the minute changes; requests keep adding to   *)
(* cumulative counters of which a row carries the difference; whichever    *)
(* app flushes first takes the completed rows.  One counter stands for     *)
(* the eight, the highest level for the other maxima, minima and seconds.  *)
(***************************************************************************)
EXTENDS Integers, Sequences, SequencesExt

CONSTANTS
    heartbeatMinutes,   \* 10 in the code
    maxReady,           \* nodeStateMaxReady, 30 in the code
    MaxMinute,          \* bounds of the model: the last minute, ...
    MaxCount            \* ... and the increments of the counter

(* What the configuration guarantees. *)
NodeStateAssumption ==
    heartbeatMinutes \in Nat \ {0} /\ maxReady \in Nat \ {0} /\ MaxMinute \in Nat /\ MaxCount \in Nat

VARIABLES
    minute,     \* the sampler's clock
    counter,    \* overloadCounts
    snap,       \* counts observe has loaded, before it takes the mutex; -1 for none
    cur, base, ready,   \* nodeStateAccumulator; cur.ts = -1 for nil
    rows,       \* history: every row completed, in order
    missed,     \* history: increments no minute covers, made while control was off
    levels      \* history: levels[m]: the highest level observed in m since a reset

vars == <<minute, counter, snap, cur, base, ready, rows, missed, levels>>

NoMinute == [ts |-> -1, level |-> 0]
Later(a, b) == IF a > b THEN a ELSE b

Init ==
    /\ minute = 1 /\ counter = 0 /\ snap = -1
    /\ cur = NoMinute /\ base = 0 /\ ready = <<>>
    /\ rows = <<>> /\ missed = 0 /\ levels = [m \in 1 .. MaxMinute |-> 0]

(* A request is skipped or shed. *)
Count ==
    /\ counter < MaxCount
    /\ counter' = counter + 1
    /\ UNCHANGED <<minute, snap, cur, base, ready, rows, missed, levels>>

(* Time passes, one minute or a suspension; observe reads the clock first. *)
Tick(n) ==
    /\ snap = -1 /\ minute + n <= MaxMinute
    /\ minute' = minute + n
    /\ UNCHANGED <<counter, snap, cur, base, ready, rows, missed, levels>>

(* observe: snapshotOverloadCounts, ... *)
Snapshot ==
    /\ snap = -1
    /\ snap' = counter
    /\ UNCHANGED <<minute, counter, cur, base, ready, rows, missed, levels>>

worthShipping(row) == row.level > 0 \/ row.ts % heartbeatMinutes = 0 \/ row.count > 0

KeepNewest(row) == Append(IF Len(ready) >= maxReady THEN Tail(ready) ELSE ready, row)


BaseOf(counts) == counts

LevelMax(m, l) == Later(m.level, l)

(* ... then, under the mutex, the minute that ended is closed and this second
   is folded into the current one. *)
Observe(l) ==
    LET closes == cur.ts # -1 /\ cur.ts # minute
        done == [ts |-> cur.ts, level |-> cur.level, count |-> snap - base]
        opens == closes \/ cur.ts = -1
        now == IF opens THEN [NoMinute EXCEPT !.ts = minute] ELSE cur
        ships == closes /\ worthShipping(done)
    IN  /\ snap # -1
        /\ ready' = IF ships THEN KeepNewest(done) ELSE ready
        /\ rows' = IF ships THEN Append(rows, done) ELSE rows
        /\ base' = IF opens THEN BaseOf(snap) ELSE base
        /\ missed' = IF cur.ts = -1 THEN missed + snap - base ELSE missed
        /\ cur' = [now EXCEPT !.level = LevelMax(now, l)]
        /\ levels' = [levels EXCEPT ![minute] = Later(@, l)]
        /\ snap' = -1
        /\ UNCHANGED <<minute, counter>>

(* drain, from the flush of any live app. *)
drain ==
    /\ ready # <<>>
    /\ ready' = <<>>
    /\ UNCHANGED <<minute, counter, snap, cur, base, rows, missed, levels>>

(* reset, from a sample taken without a config. *)
reset ==
    /\ snap = -1
    /\ cur' = NoMinute /\ ready' = <<>>
    /\ levels' = [levels EXCEPT ![minute] = 0]
    /\ UNCHANGED <<minute, counter, snap, base, rows, missed>>

Next ==
    \/ Count \/ Snapshot \/ drain \/ reset
    \/ \E n \in 1 .. 2 : Tick(n)
    \/ \E l \in 0 .. 2 : Observe(l)

Spec == Init /\ [][Next]_vars

-----------------------------------------------------------------------------
Shipped == FoldSeq(LAMBDA row, sum : row.count + sum, 0, rows)

=============================================================================
