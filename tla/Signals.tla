------------------------------- MODULE Signals -------------------------------
(***************************************************************************)
(* The sampler's readings: steal and busy share between two readings of    *)
(* the CPU counters, and the 99th percentile of the scheduling latencies   *)
(* of a sliding window, computed from cumulative histograms.               *)
(***************************************************************************)
EXTENDS Integers, Sequences, Functions

CONSTANTS
    Tick,        \* how far a CPU counter may move between readings
    Runs,        \* latencies one bucket may gain between readings
    Buckets,     \* histogram buckets
    Window,      \* histograms kept, 11 in the code
    MaxSamples   \* bound of the model: samples taken

(* What the configuration guarantees. *)
SignalsAssumption == Window > 1 /\ Buckets \in Nat \ {0} /\ MaxSamples \in Nat

VARIABLES
    cpu,       \* the cpu line of /proc/stat: busy, idle (with iowait) and steal ticks
    share,     \* what stealAndBusy returned: ok, steal per mille, busy ticks
    hist,      \* schedWindow.hist: cumulative histograms, oldest first
    p99,       \* the bucket push returned, 0 when nothing ran
    gained     \* history: what each reading added, newest last

vars == <<cpu, share, hist, p99, gained>>

Total(c) == c.busy + c.idle + c.steal
Zero == [i \in 1 .. Buckets |-> 0]
NoShare == [ok |-> FALSE, steal |-> 0, busy |-> 0]

Init ==
    /\ cpu = [busy |-> 0, idle |-> 0, steal |-> 0]
    /\ share = NoShare /\ hist = <<Zero>> /\ p99 = 0 /\ gained = <<>>

Delta(cur, prev) == IF cur >= prev THEN cur - prev ELSE 0

(* stealAndBusy: a counter that went backwards counts as not having moved; a
   total that did, or did not move, gives no reading. *)
stealAndBusy(prev, cur) ==
    IF Total(cur) <= Total(prev) THEN NoShare
    ELSE [ok |-> TRUE,
          steal |-> (Delta(cur.steal, prev.steal) * 1000) \div (Total(cur) - Total(prev)),
          busy |-> Delta(cur.busy, prev.busy)]

Target(total) == (total * 99 + 99) \div 100

(* schedP99: the first bucket at which the running count reaches the rank. *)
schedP99(prev, cur) ==
    LET delta == [i \in 1 .. Buckets |-> Delta(cur[i], prev[i])]
        upTo[i \in 0 .. Buckets] == IF i = 0 THEN 0 ELSE upTo[i - 1] + delta[i]
        total == upTo[Buckets]
        reached == {i \in 1 .. Buckets : upTo[i] >= Target(total)}
    IN  IF total = 0 THEN 0 ELSE CHOOSE i \in reached : \A j \in reached : i <= j

(* Faulty: the window keeps one histogram more than it spans. *)
KeepOneMore(h) == IF Len(h) > Window + 1 THEN Tail(h) ELSE h

Slide(h) == IF Len(h) > Window THEN Tail(h) ELSE h

(* schedWindow.push *)
push(counts) ==
    LET h == Slide(Append(hist, counts))
    IN  /\ hist' = h
        /\ p99' = IF Len(h) < 2 THEN 0 ELSE schedP99(h[1], counts)

(* One sample: the counters move, idle ticks possibly backwards as iowait does,
   and the latencies of the last second are added to the histogram. *)
Sample(db, di, ds, g) ==
    LET now == [busy |-> cpu.busy + db, idle |-> cpu.idle + di, steal |-> cpu.steal + ds]
        last == hist[Len(hist)]
    IN  /\ Len(gained) < MaxSamples /\ now.idle >= 0
        /\ cpu' = now /\ share' = stealAndBusy(cpu, now)
        /\ push([i \in 1 .. Buckets |-> last[i] + g[i]])
        /\ gained' = Append(gained, [g |-> g, busy |-> db, steal |-> ds, total |-> db + di + ds])

(* The two readings do not depend on each other: one of them moves at a time. *)
Next ==
    \/ \E db, ds \in Tick, di \in Tick \cup {-1} : Sample(db, di, ds, Zero)
    \/ \E g \in [1 .. Buckets -> Runs] : Sample(0, 1, 0, g)

Spec == Init /\ [][Next]_vars

-----------------------------------------------------------------------------
InWindow == LET n == Len(gained)
                from == IF n > Window - 1 THEN n - Window + 2 ELSE 1
            IN  SubSeq(gained, from, n)
Ran(S) == SumFunction([k \in DOMAIN InWindow |-> SumFunction([i \in S |-> InWindow[k].g[i]])])

(* What the sampler reads is what happened, for any movement of the counters.
   The reported bucket is the 99th percentile of exactly the latencies of the
   samples in the window: at least 99% of them are at or below it, and fewer
   than 99% are below it (overload_signals.go:127).  There is a steal share
   only when the total moved forward, rounded down from the ticks stolen, and
   the busy ticks are exact. *)
ReadingsExact ==
    gained # <<>> =>
        LET ran == Ran(1 .. Buckets)
            n == gained[Len(gained)]
        IN  /\ IF ran = 0 THEN p99 = 0
               ELSE p99 > 0 /\ 100 * Ran(1 .. p99) >= 99 * ran /\ 100 * Ran(1 .. p99 - 1) < 99 * ran
            /\ share.ok = (n.total > 0)
            /\ share.ok => /\ share.busy = n.busy
                           /\ share.steal * n.total <= n.steal * 1000
                           /\ n.steal * 1000 < (share.steal + 1) * n.total
=============================================================================
