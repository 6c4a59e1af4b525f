-------------------------- MODULE AnomalyDetector ---------------------------
(* AnomalyDetector of ghost-ember/anomaly_detector.py: a baseline per sensor *)
(* learns from each reading, which is then scored against it, and a buffer   *)
(* of recent readings is searched for drift.                                 *)
(*                                                                           *)
(* The statistics are exact: with ema_alpha = 1 / Decay the mean of a        *)
(* baseline is mean / scale and its variance var / scale^2, all integers.    *)
(* (The floats of the code are these up to rounding, and its guard           *)
(* std < 1e-10 is var = 0.)  Thresholds on |z| are given squared.            *)
EXTENDS Integers, Sequences, FiniteSets

CONSTANTS
    Sensors,
    Values,           \* values of the readings
    NoBaseline,       \* the sensor is not a key of _baselines
    Decay,            \* 1 / ema_alpha
    WarningSq,        \* warning_sigma squared
    CriticalSq,       \* critical_sigma squared
    DriftPct,         \* 100 * drift_threshold
    DriftWindow,      \* drift_window
    ReadyAt,          \* the 30 of is_ready
    TrendLength,      \* the 50 of trend_buffer
    MaxReadings       \* bound: readings ingested

ASSUME DetectorAssumption ==
    /\ Values \subseteq Int
    /\ Decay \in Nat \ {0}
    /\ WarningSq \in Nat \ {0} /\ CriticalSq \in Nat \ {0}
    /\ DriftPct \in Nat \ {0} /\ DriftWindow \in Nat
    /\ ReadyAt \in Nat \ {0, 1} /\ TrendLength \in Nat \ {0, 1}
    /\ MaxReadings \in Nat

VARIABLES
    baselines,        \* _baselines
    anomaly_events,   \* _anomaly_events
    drift_alerts,     \* _drift_alerts
    event_counter,    \* _event_counter
    ingested          \* history: readings ingested

vars == <<baselines, anomaly_events, drift_alerts, event_counter, ingested>>

\* `seen` is history: the values that reached this baseline.
Baseline == [count : Nat, scale : Nat, mean : Int, var : Nat,
             trend : Seq(Values), seen : SUBSET Values]

Init ==
    /\ baselines = [s \in Sensors |-> NoBaseline]
    /\ anomaly_events = <<>> /\ drift_alerts = <<>>
    /\ event_counter = 0
    /\ ingested = 0

-----------------------------------------------------------------------------
Square(x) == x * x
Magnitude(x) == IF x < 0 THEN -x ELSE x

\* sum(): the sums of the first n members, n = 0..Len(seq), and the last of them.
Sums(seq) ==
    LET sum[n \in 0..Len(seq)] == IF n = 0 THEN 0 ELSE sum[n - 1] + seq[n] IN sum
Sum(seq) == Sums(seq)[Len(seq)]

\* deque(maxlen=50).append()
Buffered_Unbounded(trend, value) == Append(trend, value)
Buffered(trend, value) ==
    IF Len(trend) < TrendLength THEN Append(trend, value) ELSE Append(Tail(trend), value)

\* _update_baseline() on the first reading of a sensor, and on a later one.
FirstBaseline(value) ==
    [count |-> 1, scale |-> 1, mean |-> value, var |-> 0,
     trend |-> <<value>>, seen |-> {value}]
Learned(b, value) ==
    LET delta == value * b.scale - b.mean
    IN  [count |-> b.count + 1,
         scale |-> Decay * b.scale,
         mean |-> Decay * b.mean + delta,
         var |-> (Decay - 1) * (Decay * b.var + Square(delta)),
         trend |-> Buffered(b.trend, value),
         seen |-> b.seen \cup {value}]
Updated(b, value) == IF b = NoBaseline THEN FirstBaseline(value) ELSE Learned(b, value)

IsReady(b) == b.count >= ReadyAt

\* The baseline a reading is scored against: the one that has learned it.
Judging_Before(old, new) == old
Judging(old, new) == new

\* |z| >= sigma, and what _classify_anomaly makes of it; z is 0 without variance.
Deviation(b, value) == value * b.scale - b.mean
Exceeds_NoGuard(b, value, sigmaSq) == Square(Deviation(b, value)) >= sigmaSq * b.var
Exceeds(b, value, sigmaSq) ==
    b.var > 0 /\ Square(Deviation(b, value)) >= sigmaSq * b.var
Severity(b, value) ==
    IF Exceeds(b, value, CriticalSq) THEN "critical"
    ELSE IF Exceeds(b, value, WarningSq) THEN "warning"
    ELSE "none"

\* _detect_drift(): the relative shift from the first half of the buffer to the
\* second, as a fraction, and the direction of a shift that is large enough.
\* The buffer is compared as a whole, however small drift_window is.
Half(window) == Len(window) \div 2
FirstSum(window) == Sum(SubSeq(window, 1, Half(window)))
SecondSum(window) == Sum(SubSeq(window, Half(window) + 1, Len(window)))
Shift_Signed(window) ==
    LET rest == Len(window) - Half(window)
    IN  [num |-> SecondSum(window) * Half(window) - FirstSum(window) * rest,
         den |-> FirstSum(window) * rest]
Shift(window) ==
    LET rest == Len(window) - Half(window)
    IN  [num |-> SecondSum(window) * Half(window) - FirstSum(window) * rest,
         den |-> Magnitude(FirstSum(window)) * rest]
Drift(window) ==
    LET shift == Shift(window)
    IN  IF \/ Len(window) < DriftWindow
           \/ FirstSum(window) = 0
           \/ 100 * Magnitude(shift.num) < DriftPct * Magnitude(shift.den)
        THEN "none"
        ELSE IF shift.num * shift.den > 0 THEN "up" ELSE "down"

-----------------------------------------------------------------------------
\* ingest(): learn, then score and search for drift once the baseline is ready.
Ingest(sensor, value) ==
    LET old == baselines[sensor]
        new == Updated(old, value)
        judge == Judging(old, new)
        severity == IF IsReady(new) THEN Severity(judge, value) ELSE "none"
        drift == IF IsReady(new) THEN Drift(new.trend) ELSE "none"
    IN  /\ ingested < MaxReadings
        /\ ingested' = ingested + 1
        /\ baselines' = [baselines EXCEPT ![sensor] = new]
        /\ IF severity = "none" THEN UNCHANGED <<event_counter, anomaly_events>>
           ELSE /\ event_counter' = event_counter + 1
                /\ anomaly_events' = Append(anomaly_events,
                       [number |-> event_counter + 1, sensor |-> sensor, severity |-> severity,
                        deviation |-> Deviation(judge, value), var |-> judge.var,
                        seen |-> new.seen])
        /\ drift_alerts' =
               IF drift = "none" THEN drift_alerts
               ELSE Append(drift_alerts, [sensor |-> sensor, direction |-> drift,
                                          window |-> new.trend])

\* reset_sensor(): the baseline goes, the events and alerts stay.
ResetSensor(sensor) ==
    /\ baselines' = [baselines EXCEPT ![sensor] = NoBaseline]
    /\ UNCHANGED <<anomaly_events, drift_alerts, event_counter, ingested>>

Next ==
    \E sensor \in Sensors :
        \/ \E value \in Values : Ingest(sensor, value)
        \/ ResetSensor(sensor)

Spec == Init /\ [][Next]_vars

-----------------------------------------------------------------------------
(* Properties *)

\* Every field keeps its type, the trend buffers their length, and the events
\* are numbered through over all sensors and resets.
TypeOK ==
    /\ \A s \in Sensors :
         \/ baselines[s] = NoBaseline
         \/ baselines[s] \in Baseline /\ Len(baselines[s].trend) <= TrendLength
    /\ \A i \in 1..Len(anomaly_events) :
         /\ anomaly_events[i] \in
              [number : {i}, sensor : Sensors, severity : {"warning", "critical"},
               deviation : Int, var : Nat, seen : SUBSET Values]
    /\ event_counter = Len(anomaly_events)
    /\ \A i \in 1..Len(drift_alerts) :
         drift_alerts[i] \in
           [sensor : Sensors, direction : {"up", "down"}, window : Seq(Values)]
    /\ ingested \in 0..MaxReadings

\* However far a reading is off, its score is at most sqrt(1 / ema_alpha - 1),
\* because the baseline has learned the reading before it judges it: with
\* ema_alpha = 0.1 no reading is ever more than 3 sigma off, and nothing is
\* critical at the default 3.5 (ingest, _update_baseline, _compute_z_score).
SpikesAreBounded ==
    \A i \in 1..Len(anomaly_events) :
        Square(anomaly_events[i].deviation) <= (Decay - 1) * anomaly_events[i].var

\* A sensor that has reported one value ever since it was first seen or reset
\* raises no anomaly, also when another value was usual before the reset
\* (_compute_z_score's guard against a vanishing deviation).
QuietStaysQuiet ==
    \A i \in 1..Len(anomaly_events) : Cardinality(anomaly_events[i].seen) > 1

\* An alert says up exactly when the later half of its window is the higher one
\* on average, for readings of either sign (DriftDirection, abs(mean_first)).
DriftDirectionTrue ==
    \A i \in 1..Len(drift_alerts) :
        LET w == drift_alerts[i].window
        IN  drift_alerts[i].direction = "up" <=>
                FirstSum(w) * (Len(w) - Half(w)) < SecondSum(w) * Half(w)
=============================================================================
