---------------------------- MODULE RequestEvents ----------------------------
(***************************************************************************)
(* The request-event recorder: one buffer per flush window, sampled under  *)
(* load and under memory pressure, capped in rows and refused bytes by the *)
(* memory governor.  In mode_v2 served rows are sampled by pressure alone  *)
(* and all other dispositions by a threshold and a counter of their own;   *)
(* in the legacy mode one counter covers every row.                        *)
(***************************************************************************)
EXTENDS Integers, Sequences, FiniteSets, SequencesExt

CONSTANTS
    threshold,           \* legacy sample_threshold; <= 0 never samples by load
    blockedThreshold,    \* mode_v2 blocked_sample_threshold
    maxRows,             \* rows one window may keep
    Pressure,            \* governor pressures, in per mille
    MaxSeen              \* bound of the model: rows of one kind in a window

(* What the configuration guarantees. *)
RequestEventsAssumption ==
    /\ threshold \in Int /\ blockedThreshold \in Int
    /\ maxRows \in Nat /\ Pressure \subseteq Nat /\ MaxSeen \in Nat

VARIABLES
    modeV2,        \* the recorder's mode, fixed by the configuration
    rows,          \* rows of this window: [served, rate]
    seen, seenBlocked,
    overflow,      \* kept rows dropped at the row cap or by the governor
    pressed        \* history: memory pressure sampled in this window

vars == <<modeV2, rows, seen, seenBlocked, overflow, pressed>>

pressureSampleStart == 700
pressureSampleMaxFactor == 16

(* pressureSampleFloor: 1 up to the start, then linear to the maximum at full
   pressure, rounded to the nearest integer. *)
pressureSampleFloor(p) ==
    LET over == IF p > 1000 THEN 1000 - pressureSampleStart ELSE p - pressureSampleStart
        full == 1000 - pressureSampleStart
    IN  IF p <= pressureSampleStart THEN 1
        ELSE 1 + (2 * over * (pressureSampleMaxFactor - 1) + full) \div (2 * full)

LoadFactor(n, t) == IF t > 0 /\ n >= t THEN n \div t + 1 ELSE 1
Larger(a, b) == IF a > b THEN a ELSE b

Init == modeV2 \in BOOLEAN /\ rows = <<>> /\ seen = 0 /\ seenBlocked = 0 /\ overflow = 0 /\ pressed = FALSE

(* sampleDecision: the rate of a kept row, 0 for a row passed over; SampleRate
   is a uint16. *)
sampleDecision(n, factor) ==
    IF factor <= 1 THEN 1 ELSE IF n % factor = 0 THEN factor % 65536 ELSE 0

(* appendLocked: the row cap, then the governor. *)
appendLocked(served, rate) ==
    \/ /\ Len(rows) < maxRows
       /\ rows' = Append(rows, [served |-> served, rate |-> rate])
       /\ UNCHANGED overflow
    \/ /\ overflow' = overflow + 1
       /\ UNCHANGED rows

(* A row whose counter stands at n is kept, passed over, or refused. *)
Decide(n, load, p, served) ==
    LET rate == sampleDecision(n, Larger(load, pressureSampleFloor(p)))
    IN  /\ \/ rate > 0 /\ appendLocked(served, rate)
           \/ rate = 0 /\ UNCHANGED <<rows, overflow>>
        /\ pressed' = (pressed \/ pressureSampleFloor(p) > 1)
        /\ UNCHANGED modeV2

(* Faulty: mode_v2 samples the blocked rows on the served rows' counter. *)
SharedCounter(p) ==
    /\ seen < MaxSeen
    /\ Decide(seen, LoadFactor(seen, blockedThreshold), p, FALSE)
    /\ seen' = seen + 1 /\ UNCHANGED seenBlocked

(* recordV2Locked, non-served: a threshold and a counter of its own. *)
RecordBlocked(p) ==
    /\ seenBlocked < MaxSeen
    /\ Decide(seenBlocked, LoadFactor(seenBlocked, blockedThreshold), p, FALSE)
    /\ seenBlocked' = seenBlocked + 1 /\ UNCHANGED seen

(* recordV2Locked, served: only pressure samples. *)
RecordServed(p) ==
    /\ seen < MaxSeen
    /\ Decide(seen, 1, p, TRUE)
    /\ seen' = seen + 1 /\ UNCHANGED seenBlocked

(* record in the legacy mode: one counter, served rows only. *)
RecordLegacy(p) ==
    /\ seen < MaxSeen
    /\ Decide(seen, LoadFactor(seen, threshold), p, TRUE)
    /\ seen' = seen + 1 /\ UNCHANGED seenBlocked

(* drain swaps the window out; the governor gets its bytes back (MemGovernor). *)
drain ==
    /\ rows' = <<>> /\ overflow' = 0 /\ pressed' = FALSE
    /\ seen' = 0 /\ seenBlocked' = 0
    /\ UNCHANGED modeV2

Next ==
    \/ \E p \in Pressure :
          \/ modeV2 /\ (RecordServed(p) \/ RecordBlocked(p))
          \/ ~modeV2 /\ RecordLegacy(p)
    \/ drain

Spec == Init /\ [][Next]_vars

-----------------------------------------------------------------------------
Offered(served) == IF modeV2 /\ ~served THEN seenBlocked ELSE IF ~modeV2 /\ ~served THEN 0 ELSE seen
Whole(served) == IF ~modeV2 THEN threshold ELSE IF served THEN MaxSeen ELSE blockedThreshold

(* Without memory pressure and refusals a window keeps its first rows whole,
   up to the threshold of their kind, and only later rows are sampled and
   stamped with a rate.  In mode_v2 the two kinds do not touch each other: a
   flood of blocked rows never causes a served one to be sampled, however the
   two interleave (request_event_recorder.go:121-156). *)
SampledPastThreshold ==
    overflow = 0 /\ ~pressed =>
        \A served \in BOOLEAN :
            LET kept == SelectSeq(rows, LAMBDA r : r.served = served)
            IN  /\ Offered(served) <= Whole(served) => Len(kept) = Offered(served)
                /\ \A i \in DOMAIN kept : (kept[i].rate = 1) = (i <= Whole(served))
=============================================================================
