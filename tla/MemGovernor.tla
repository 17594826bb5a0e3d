----------------------------- MODULE MemGovernor -----------------------------
(***************************************************************************)
(* One generation's memory governor and the buffers that reserve bytes     *)
(* from it: request events, Coraza detections and domain-health counters.  *)
(* Each buffer is guarded by a mutex of its own, so reservations of        *)
(* different buffers meet in tryReserve's compare-and-swap, and a drain    *)
(* returns in one call what its buffer reserved row by row.                *)
(***************************************************************************)
EXTENDS Integers, Functions

CONSTANTS
    Buffer,        \* the governed buffers
    Writer,        \* goroutines recording into them
    Size,          \* row sizes, in units of bytes
    shareBudget,   \* bytes the buffers may hold together
    maxRows        \* rows one buffer may hold

(* What the configuration guarantees. *)
MemGovernorAssumption == Size \subseteq Nat \ {0} /\ shareBudget \in Nat /\ maxRows \in Nat

VARIABLES
    bufferBytes,   \* memGovernor.bufferBytes
    overCeiling,   \* cachedRSS is above rssCeiling
    reserved,      \* reserved[b]: bytes the buffer remembers for its drain
    rows,          \* rows[b][n]: rows of size n in the buffer
    wr             \* wr[w]: the writer's position in its record call

vars == <<bufferBytes, overCeiling, reserved, rows, wr>>

Idle == [pc |-> "idle"]

Init ==
    /\ bufferBytes = 0 /\ overCeiling \in BOOLEAN
    /\ reserved = [b \in Buffer |-> 0]
    /\ rows = [b \in Buffer |-> [n \in Size |-> 0]]
    /\ wr = [w \in Writer |-> Idle]

Locked(b) == \E w \in Writer : wr[w].pc # "idle" /\ wr[w].b = b
RowCount(b) == SumFunction(rows[b])

(* refreshRSS: a new reading, or 0 when it cannot be read. *)
refreshRSS ==
    /\ overCeiling' = ~overCeiling
    /\ UNCHANGED <<bufferBytes, reserved, rows, wr>>

(* The row is dropped and counted (RequestEvents models the counting). *)
Refuse(w) ==
    /\ wr' = [wr EXCEPT ![w] = Idle]
    /\ UNCHANGED <<bufferBytes, overCeiling, reserved, rows>>

(* appendLocked, RecordCorazaDetection: under the buffer's mutex, the row cap
   and then the governor's view of the RSS. *)
Record(w, b, n) ==
    /\ wr[w].pc = "idle" /\ ~Locked(b)
    /\ \/ (RowCount(b) >= maxRows \/ overCeiling) /\ Refuse(w)
       \/ /\ RowCount(b) < maxRows /\ ~overCeiling
          /\ wr' = [wr EXCEPT ![w] = [pc |-> "load", b |-> b, n |-> n]]
          /\ UNCHANGED <<bufferBytes, overCeiling, reserved, rows>>

Fits(n) == bufferBytes + n <= shareBudget

(* tryReserve loads the tally and refuses what does not fit. *)
Load(w) ==
    /\ wr[w].pc = "load"
    /\ \/ ~Fits(wr[w].n) /\ Refuse(w)
       \/ /\ Fits(wr[w].n)
          /\ wr' = [wr EXCEPT ![w] = [pc |-> "swap", b |-> wr[w].b, n |-> wr[w].n,
                                      cur |-> bufferBytes]]
          /\ UNCHANGED <<bufferBytes, overCeiling, reserved, rows>>

(* The swap happens only if the tally is still the one that was loaded. *)
CompareAndSwap(cur) == bufferBytes = cur

Swap(w) ==
    LET b == wr[w].b
        n == wr[w].n
    IN  /\ wr[w].pc = "swap"
        /\ \/ /\ ~CompareAndSwap(wr[w].cur)
              /\ wr' = [wr EXCEPT ![w] = [pc |-> "load", b |-> b, n |-> n]]
              /\ UNCHANGED <<bufferBytes, reserved, rows>>
           \/ /\ CompareAndSwap(wr[w].cur)
              /\ bufferBytes' = wr[w].cur + n
              /\ reserved' = [reserved EXCEPT ![b] = @ + n]
              /\ rows' = [rows EXCEPT ![b][n] = @ + 1]
              /\ wr' = [wr EXCEPT ![w] = Idle]
        /\ UNCHANGED <<overCeiling>>

(* release: an atomic subtraction, clamped at zero.  The clamp is a second
   atomic step in the code; BytesExact shows that it is never reached. *)
release(n) == bufferBytes' = IF bufferBytes - n < 0 THEN 0 ELSE bufferBytes - n

(* Faulty: the drain forgets to reset what it has released. *)
KeepReserved(b) == UNCHANGED reserved

ResetReserved(b) == reserved' = [reserved EXCEPT ![b] = 0]

(* requestEventRecorder.drain, corazaSnapshot: under the buffer's mutex. *)
Drain(b) ==
    /\ ~Locked(b)
    /\ release(reserved[b])
    /\ ResetReserved(b)
    /\ rows' = [rows EXCEPT ![b] = [n \in Size |-> 0]]
    /\ UNCHANGED <<overCeiling, wr>>

Next ==
    \/ refreshRSS
    \/ \E w \in Writer :
          \/ \E b \in Buffer, n \in Size : Record(w, b, n)
          \/ Load(w)
          \/ Swap(w)
    \/ \E b \in Buffer : Drain(b)

Spec == Init /\ [][Next]_vars

-----------------------------------------------------------------------------
Held(b) == SumFunction([n \in Size |-> n * rows[b][n]])

(* The tally is the bytes of the rows the buffers hold and never more than
   their share, whichever writers raced in tryReserve: no reservation is lost,
   kept after a refusal or released twice, so release never needs its clamp
   (mem_budget.go:180, :194). *)
BytesExact ==
    /\ bufferBytes = SumFunction([b \in Buffer |-> Held(b)])
    /\ \A b \in Buffer : reserved[b] = Held(b)
    /\ bufferBytes <= shareBudget
=============================================================================
