----------------------------- MODULE LevelControl -----------------------------
(***************************************************************************)
(* nextLevel, the overload level's transition, driven one sample a second. *)
(* Times are ages in samples, cut off where no threshold tells them apart; *)
(* a zero time.Time is Never.                                              *)
(***************************************************************************)
EXTENDS Integers, Sequences

CONSTANTS
    conserveThrottle, shedThrottle, calmThrottle,   \* per mille
    conserveSched, shedSched, calmSched,            \* milliseconds
    burstTte, enterSamples, dwell, conserveExit, shedExit,
    Throttle, Sched, Tte,                           \* the values the signals take
    Horizon                                         \* samples remembered, and the cut-off of ages

(* What the configuration guarantees. *)
LevelControlAssumption ==
    \A n \in {enterSamples, dwell, conserveExit, shedExit} : n \in 1 .. Horizon - 1

VARIABLES
    st,     \* levelState
    past    \* history: the last samples as nextLevel classifies them, newest first

vars == <<st, past>>

Never == -1
reasonThrottle == 1
reasonSched == 2
reasonBurstTte == 4
reasonHardCap == 8

Init ==
    /\ st = [level |-> 0, since |-> Horizon, streak1 |-> 0, streak2 |-> 0,
             l2ClearSince |-> Never, calmSince |-> Never, reasons |-> 0]
    /\ past = <<>>

CutOff(n) == IF n > Horizon THEN Horizon ELSE n
Older(age) == IF age = Never THEN Never ELSE CutOff(age + 1)
StartRun(age) == IF age = Never THEN 0 ELSE age

Bit(b, cond) == IF cond THEN b ELSE 0
reasons(s) ==
    Bit(reasonThrottle, s.throttle >= conserveThrottle) + Bit(reasonSched, s.sched >= conserveSched)
    + Bit(reasonBurstTte, s.tte >= 0 /\ s.tte < burstTte) + Bit(reasonHardCap, s.hardCap)

L2(s) == s.throttle >= shedThrottle \/ s.sched >= shedSched
L1(s) == L2(s) \/ s.throttle >= conserveThrottle \/ s.sched >= conserveSched
         \/ (s.tte >= 0 /\ s.tte < burstTte)
Calm(s) == ~L1(s) /\ s.throttle < calmThrottle /\ s.sched < calmSched
Class(s) == IF L2(s) THEN "l2" ELSE IF L1(s) THEN "l1" ELSE IF Calm(s) THEN "calm" ELSE "band"

(* Faulty: a sample between calm and conserve does not end the calm run. *)
CalmThroughBand(age, s) == IF L1(s) THEN Never ELSE StartRun(age)

CalmSince(age, s) == IF Calm(s) THEN StartRun(age) ELSE Never

Streak(n, on) == IF on THEN CutOff(n + 1) ELSE 0

DwellOK(m) == m.since >= dwell

(* The switch, on a state whose streaks and runs include this sample. *)
Level(m) ==
    CASE m.level < 2 /\ m.streak2 >= enterSamples -> 2
      [] m.level < 1 /\ m.streak2 < enterSamples /\ m.streak1 >= enterSamples -> 1
      [] m.level = 2 /\ DwellOK(m) /\ m.l2ClearSince >= shedExit -> 1
      [] m.level = 1 /\ m.streak2 < enterSamples /\ DwellOK(m) /\ m.calmSince >= conserveExit -> 0
      [] OTHER -> m.level

nextLevel(s) ==
    LET m == [st EXCEPT
                !.since = Older(@),
                !.streak2 = Streak(@, L2(s)),
                !.streak1 = Streak(@, L1(s)),
                !.l2ClearSince = IF L2(s) THEN Never ELSE StartRun(Older(@)),
                !.calmSince = CalmSince(Older(@), s),
                !.reasons = reasons(s)]
    IN  [m EXCEPT !.level = Level(m), !.since = IF Level(m) = m.level THEN @ ELSE 0]

Sample ==
    \E t \in Throttle, c \in Sched, e \in Tte, h \in BOOLEAN :
        LET s == [throttle |-> t, sched |-> c, tte |-> e, hardCap |-> h]
            all == <<Class(s)>> \o past
        IN  /\ st' = nextLevel(s)
            /\ past' = SubSeq(all, 1, IF Len(all) > Horizon THEN Horizon ELSE Len(all))

Next == Sample

Spec == Init /\ [][Next]_vars

-----------------------------------------------------------------------------
Last(n, classes) == Len(past) >= n /\ \A i \in 1 .. n : past[i] \in classes

(* The level's hysteresis, for every sequence of samples (overload.go:239).
   Leaving a level takes its whole exit run with no sample of the wrong kind in
   it, and at least dwell seconds on the level, and goes one level at a time:
   2 falls to 1 only after shedExit seconds without level-2 terms, 1 to 0 only
   after conserveExit seconds of calm.  Rising takes enterSamples samples in a
   row with the terms of the new level, and is never delayed beyond them. *)
HysteresisStep ==
    /\ st'.level < st.level => st'.level = st.level - 1 /\ st.since + 1 >= dwell
    /\ st.level = 2 /\ st'.level = 1 => Last(shedExit + 1, {"calm", "band", "l1"})'
    /\ st.level = 1 /\ st'.level = 0 => Last(conserveExit + 1, {"calm"})'
    /\ st'.level = 2 /\ st.level < 2 => Last(enterSamples, {"l2"})'
    /\ st'.level = 1 /\ st.level = 0 => Last(enterSamples, {"l1", "l2"})'
    /\ Last(enterSamples, {"l2"})' => st'.level = 2
    /\ Last(enterSamples, {"l1", "l2"})' => st'.level >= 1
=============================================================================
