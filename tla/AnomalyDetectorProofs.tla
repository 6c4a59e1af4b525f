----------------------- MODULE AnomalyDetectorProofs ------------------------
(* Theorems about AnomalyDetector, for every value of its constants.  That   *)
(* scores are bounded is a fact of one reading; it is inductive together     *)
(* with the types of the baselines, because a variance is never negative.    *)
(* The sums over a window are a recursive function: that they exist, and are *)
(* numbers, is shown by the least index for which they would not.            *)
EXTENDS AnomalyDetector, FiniteSetTheorems, SequenceTheorems, NaturalsInduction,
        WellFoundedInduction, TLAPS

\* What is known of every event raised.
BoundedEvent ==
    [number : Nat, sensor : Sensors, severity : {"warning", "critical"},
     deviation : Int, var : Nat, seen : SUBSET Values]

IInv ==
    /\ baselines \in [Sensors -> Baseline \cup {NoBaseline}]
    /\ event_counter \in Nat
    /\ anomaly_events \in Seq(BoundedEvent)
    /\ SpikesAreBounded

-----------------------------------------------------------------------------
(* One reading *)

LEMMA SquareIsNat ==
    ASSUME NEW x \in Int
    PROVE  Square(x) \in Nat
BY SMT DEF Square

\* A product of natural numbers is one.
LEMMA ProductIsNat ==
    ASSUME NEW x \in Nat, NEW y \in Nat
    PROVE  x * y \in Nat
BY SMT

\* A baseline that learns a reading keeps its type.
LEMMA LearnedType ==
    ASSUME NEW b \in Baseline, NEW value \in Values
    PROVE  Learned(b, value) \in Baseline
<1> DEFINE delta == value * b.scale - b.mean
<1>1. value \in Int /\ b.scale \in Nat /\ b.mean \in Int /\ b.var \in Nat
      /\ b.count \in Nat /\ b.trend \in Seq(Values) /\ b.seen \subseteq Values
  BY DetectorAssumption DEF Baseline
<1>2. delta \in Int
  BY <1>1
<1>3. Square(delta) \in Nat
  BY <1>2, SquareIsNat
<1>4. Decay \in Nat /\ Decay - 1 \in Nat
  BY DetectorAssumption
<1>5. Decay * b.var \in Nat /\ Decay * b.scale \in Nat /\ Decay * b.mean + delta \in Int
  <2> HIDE DEF delta
  <2> QED BY <1>1, <1>2, <1>4, ProductIsNat
<1>6. (Decay - 1) * (Decay * b.var + Square(delta)) \in Nat
  <2> HIDE DEF delta
  <2>1. Decay * b.var + Square(delta) \in Nat
    BY <1>3, <1>5
  <2> QED BY <1>4, <2>1, ProductIsNat
<1>7. Buffered(b.trend, value) \in Seq(Values)
  <2>1. Append(b.trend, value) \in Seq(Values)
    BY <1>1
  <2>2. CASE Len(b.trend) >= TrendLength
    <3>1. b.trend # <<>>
      BY <1>1, <2>2, DetectorAssumption
    <3>2. Append(Tail(b.trend), value) \in Seq(Values)
      BY <1>1, <3>1
    <3> QED BY <2>1, <3>2 DEF Buffered
  <2>3. CASE ~(Len(b.trend) >= TrendLength)
    BY <1>1, <2>1, <2>3, DetectorAssumption DEF Buffered
  <2> QED BY <2>2, <2>3
<1> QED BY <1>1, <1>5, <1>6, <1>7 DEF Learned, Baseline

\* The score of a reading a baseline has just learned: with delta the distance
\* from the old mean, the deviation is (Decay - 1) * delta, and the variance
\* counts delta itself.
LEMMA LearnedBound ==
    ASSUME NEW b \in Baseline, NEW value \in Values
    PROVE  Square(Deviation(Learned(b, value), value))
             <= (Decay - 1) * Learned(b, value).var
<1> DEFINE delta == value * b.scale - b.mean
           k == Decay - 1
<1>1. value \in Int /\ b.scale \in Nat /\ b.mean \in Int /\ b.var \in Nat
  BY DetectorAssumption DEF Baseline
<1>2. delta \in Int /\ k \in Nat /\ Decay \in Nat
  BY <1>1, DetectorAssumption
<1>3. Deviation(Learned(b, value), value) = k * delta
  <2>1. Deviation(Learned(b, value), value)
          = value * (Decay * b.scale) - (Decay * b.mean + delta)
    BY DEF Deviation, Learned
  <2>2. value * (Decay * b.scale) - Decay * b.mean = Decay * (value * b.scale - b.mean)
    BY <1>1, <1>2, SMT
  <2>3. Decay * delta - delta = k * delta
    <3> HIDE DEF delta
    <3> QED BY <1>2, SMT
  <2> QED BY <2>1, <2>2, <2>3, <1>1, <1>2, SMT
<1>4. Learned(b, value).var = k * (Decay * b.var + Square(delta))
  BY DEF Learned
<1>5. Square(k * delta) <= k * (k * (Decay * b.var + Square(delta)))
  <2> HIDE DEF delta, k
  <2>1. Square(k * delta) = (k * k) * Square(delta)
    BY <1>2, SMT DEF Square
  <2>2. Square(delta) \in Nat /\ Decay * b.var \in Nat /\ k * k \in Nat
    BY <1>1, <1>2, SquareIsNat, ProductIsNat
  <2>3. k * (k * (Decay * b.var + Square(delta)))
          = (k * k) * (Decay * b.var) + (k * k) * Square(delta)
    BY <1>2, <2>2, SMT
  <2>4. (k * k) * (Decay * b.var) \in Nat /\ (k * k) * Square(delta) \in Nat
    BY <2>2, ProductIsNat
  <2> QED BY <2>1, <2>3, <2>4
<1> QED BY <1>3, <1>4, <1>5

\* The baseline ingest() ends up with, and the score it gives: the first reading
\* is its own mean.
LEMMA UpdatedBound ==
    ASSUME NEW b \in Baseline \cup {NoBaseline}, NEW value \in Values
    PROVE  /\ Updated(b, value) \in Baseline
           /\ Deviation(Updated(b, value), value) \in Int
           /\ Square(Deviation(Updated(b, value), value))
                <= (Decay - 1) * Updated(b, value).var
<1>1. Updated(b, value) \in Baseline
  <2>1. CASE b = NoBaseline
    <3>1. value \in Int /\ <<value>> \in Seq(Values) /\ {value} \subseteq Values
      BY DetectorAssumption
    <3>2. FirstBaseline(value) \in Baseline
      BY <3>1 DEF FirstBaseline, Baseline
    <3> QED BY <2>1, <3>2 DEF Updated
  <2>2. CASE b # NoBaseline
    BY <2>2, LearnedType DEF Updated
  <2> QED BY <2>1, <2>2
<1>2. Deviation(Updated(b, value), value) \in Int
  <2>1. Updated(b, value).scale \in Nat /\ Updated(b, value).mean \in Int /\ value \in Int
    BY <1>1, DetectorAssumption DEF Baseline
  <2> QED BY <2>1 DEF Deviation
<1>3. Square(Deviation(Updated(b, value), value)) <= (Decay - 1) * Updated(b, value).var
  <2>1. CASE b = NoBaseline
    <3>1. value \in Int /\ Decay - 1 \in Nat
      BY DetectorAssumption
    <3>2. Deviation(FirstBaseline(value), value) = 0 /\ FirstBaseline(value).var = 0
      BY <3>1 DEF Deviation, FirstBaseline
    <3>3. Square(0) <= (Decay - 1) * 0
      BY <3>1 DEF Square
    <3> QED BY <2>1, <3>2, <3>3 DEF Updated
  <2>2. CASE b # NoBaseline
    BY <2>2, LearnedBound DEF Updated
  <2> QED BY <2>1, <2>2
<1> QED BY <1>1, <1>2, <1>3

-----------------------------------------------------------------------------
(* The invariant *)

LEMMA InitIInv == Init => IInv
BY DEF Init, IInv, SpikesAreBounded

LEMMA IngestIInv ==
    ASSUME IInv, NEW sensor \in Sensors, NEW value \in Values, Ingest(sensor, value)
    PROVE  IInv'
<1> DEFINE new == Updated(baselines[sensor], value)
           severity == IF IsReady(new) THEN Severity(new, value) ELSE "none"
           event == [number |-> event_counter + 1, sensor |-> sensor,
                     severity |-> severity, deviation |-> Deviation(new, value),
                     var |-> new.var, seen |-> new.seen]
<1>1. baselines[sensor] \in Baseline \cup {NoBaseline}
  BY DEF IInv
<1>2. /\ new \in Baseline
      /\ Deviation(new, value) \in Int
      /\ Square(Deviation(new, value)) <= (Decay - 1) * new.var
  BY <1>1, UpdatedBound
<1>3. baselines' = [baselines EXCEPT ![sensor] = new]
  BY DEF Ingest
<1>4. baselines' \in [Sensors -> Baseline \cup {NoBaseline}]
  <2> HIDE DEF new
  <2> QED BY <1>2, <1>3 DEF IInv
<1>5. CASE severity = "none"
  <2>1. UNCHANGED <<event_counter, anomaly_events>>
    BY <1>5 DEF Ingest, Judging
  <2> QED BY <1>4, <2>1 DEF IInv, SpikesAreBounded
<1>6. CASE severity # "none"
  <2>1. event_counter' = event_counter + 1 /\ anomaly_events' = Append(anomaly_events, event)
    BY <1>6 DEF Ingest, Judging
  <2>2. severity \in {"warning", "critical"}
    BY <1>6 DEF Severity
  <2>3. event \in BoundedEvent
    <3> HIDE DEF new, severity
    <3> QED BY <1>2, <2>2 DEF BoundedEvent, Baseline, IInv
  <2>4. Square(event.deviation) <= (Decay - 1) * event.var
    BY <1>2
  <2>5. event_counter' \in Nat /\ anomaly_events' \in Seq(BoundedEvent)
    <3> HIDE DEF event
    <3> QED BY <2>1, <2>3 DEF IInv
  <2>6. SpikesAreBounded'
    <3> HIDE DEF event
    <3> SUFFICES ASSUME NEW i \in 1..Len(anomaly_events')
                 PROVE  Square(anomaly_events'[i].deviation)
                          <= (Decay - 1) * anomaly_events'[i].var
      BY DEF SpikesAreBounded
    <3>1. CASE i = Len(anomaly_events) + 1
      <4>1. anomaly_events'[i] = event
        BY <2>1, <2>3, <3>1 DEF IInv
      <4> QED BY <2>4, <4>1
    <3>2. CASE i # Len(anomaly_events) + 1
      <4>1. i \in 1..Len(anomaly_events) /\ anomaly_events'[i] = anomaly_events[i]
        BY <2>1, <2>3, <3>2 DEF IInv
      <4> QED BY <4>1 DEF IInv, SpikesAreBounded
    <3> QED BY <3>1, <3>2
  <2> QED BY <1>4, <2>5, <2>6 DEF IInv
<1> QED BY <1>5, <1>6

LEMMA NextIInv == IInv /\ [Next]_vars => IInv'
<1> SUFFICES ASSUME IInv, [Next]_vars PROVE IInv'
  OBVIOUS
<1>1. CASE \E sensor \in Sensors, value \in Values : Ingest(sensor, value)
  BY <1>1, IngestIInv
<1>2. CASE \E sensor \in Sensors : ResetSensor(sensor)
  BY <1>2 DEF ResetSensor, IInv, SpikesAreBounded
<1>3. CASE UNCHANGED vars
  BY <1>3 DEF vars, IInv, SpikesAreBounded
<1> QED BY <1>1, <1>2, <1>3 DEF Next

\* No anomaly is ever scored beyond sqrt(1 / ema_alpha - 1), whatever was read
\* and reset before (ingest updates the baseline before it scores).
THEOREM ScoresAreBounded == Spec => []SpikesAreBounded
<1>1. IInv => SpikesAreBounded
  BY DEF IInv
<1> QED BY InitIInv, NextIInv, <1>1, PTL DEF Spec

LEMMA Invariance == Spec => []IInv
<1> QED BY InitIInv, NextIInv, PTL DEF Spec

-----------------------------------------------------------------------------
(* Quiet sensors *)

\* A baseline that has seen one value only has it for its mean, and no variance.
Flat(b) ==
    /\ IsFiniteSet(b.seen) /\ b.seen # {}
    /\ \A v \in Values : b.seen = {v} => b.var = 0 /\ b.mean = v * b.scale

QuietInv ==
    /\ \A s \in Sensors : baselines[s] # NoBaseline => Flat(baselines[s])
    /\ QuietStaysQuiet

LEMMA UpdatedFlat ==
    ASSUME NEW b \in Baseline \cup {NoBaseline}, NEW value \in Values,
           b # NoBaseline => Flat(b)
    PROVE  Flat(Updated(b, value))
<1>1. CASE b = NoBaseline
  <2>1. Updated(b, value) = FirstBaseline(value)
    BY <1>1 DEF Updated
  <2>2. IsFiniteSet({value})
    BY FS_Singleton
  <2>3. \A v \in Values : {value} = {v} => value = v * 1
    BY DetectorAssumption
  <2> QED BY <2>1, <2>2, <2>3 DEF Flat, FirstBaseline
<1>2. CASE b # NoBaseline
  <2> DEFINE new == Learned(b, value)  delta == value * b.scale - b.mean
  <2>1. Updated(b, value) = new
    BY <1>2 DEF Updated
  <2>2. /\ new.seen = b.seen \cup {value} /\ new.scale = Decay * b.scale
        /\ new.mean = Decay * b.mean + delta
        /\ new.var = (Decay - 1) * (Decay * b.var + Square(delta))
    BY DEF Learned
  <2>3. IsFiniteSet(new.seen) /\ new.seen # {}
    BY <1>2, <2>2, FS_AddElement DEF Flat
  <2>4. ASSUME NEW v \in Values, new.seen = {v}
        PROVE  new.var = 0 /\ new.mean = v * new.scale
    <3>1. value = v /\ b.seen = {v}
      BY <1>2, <2>2, <2>4 DEF Flat
    <3>2. b.var = 0 /\ b.mean = v * b.scale
      BY <1>2, <3>1 DEF Flat
    <3>3. v \in Int /\ b.scale \in Nat /\ Decay \in Nat
      BY <1>2, DetectorAssumption DEF Baseline
    <3>4. delta = 0
      BY <3>1, <3>2, <3>3
    <3> HIDE DEF delta, new
    <3>5. new.var = 0
      <4>1. Square(0) = 0
        BY DEF Square
      <4>2. Decay * 0 + 0 = 0 /\ (Decay - 1) * 0 = 0
        BY <3>3
      <4> QED BY <2>2, <3>2, <3>4, <4>1, <4>2
    <3>6. new.mean = v * new.scale
      <4>1. Decay * (v * b.scale) + 0 = v * (Decay * b.scale)
        BY <3>3, SMT
      <4> QED BY <2>2, <3>2, <3>4, <4>1
    <3> QED BY <3>5, <3>6
  <2> QED BY <2>1, <2>3, <2>4 DEF Flat
<1> QED BY <1>1, <1>2

\* What raises an anomaly has a variance, so at least two values.
LEMMA IngestQuiet ==
    ASSUME IInv, QuietInv, NEW sensor \in Sensors, NEW value \in Values, Ingest(sensor, value)
    PROVE  QuietInv'
<1> DEFINE old == baselines[sensor]  new == Updated(old, value)
           severity == IF IsReady(new) THEN Severity(new, value) ELSE "none"
           event == [number |-> event_counter + 1, sensor |-> sensor,
                     severity |-> severity, deviation |-> Deviation(new, value),
                     var |-> new.var, seen |-> new.seen]
<1>1. /\ old \in Baseline \cup {NoBaseline} /\ new \in Baseline /\ Flat(new)
      /\ Deviation(new, value) \in Int
  BY UpdatedBound, UpdatedFlat DEF IInv, QuietInv
<1>2. /\ baselines' = [baselines EXCEPT ![sensor] = new]
      /\ \/ severity = "none" /\ anomaly_events' = anomaly_events
         \/ severity # "none" /\ anomaly_events' = Append(anomaly_events, event)
  BY DEF Ingest, Judging
<1>3. severity # "none" => severity \in {"warning", "critical"} /\ new.var > 0
  BY DEF Severity, Exceeds
<1> HIDE DEF new, severity
<1>4. \A s \in Sensors : baselines'[s] # NoBaseline => Flat(baselines'[s])
  BY <1>1, <1>2 DEF IInv, QuietInv
<1>5. CASE severity = "none"
  BY <1>2, <1>4, <1>5 DEF QuietInv, QuietStaysQuiet
<1>6. CASE severity # "none"
  <2>1. Cardinality(new.seen) > 1
    <3>1. new.seen \subseteq Values /\ new.var \in Nat /\ new.var # 0
      BY <1>1, <1>3, <1>6 DEF Baseline
    <3>2. ~ \E v : new.seen = {v}
      BY <1>1, <3>1 DEF Flat
    <3>3. Cardinality(new.seen) \in Nat /\ Cardinality(new.seen) # 0 /\ Cardinality(new.seen) # 1
      BY <1>1, <3>2, FS_CardinalityType, FS_EmptySet, FS_Singleton DEF Flat
    <3> QED BY <3>3
  <2>2. event \in BoundedEvent
    BY <1>1, <1>3, <1>6 DEF BoundedEvent, Baseline, IInv
  <2>3. event.seen = new.seen
    OBVIOUS
  <2> HIDE DEF event
  <2>4. anomaly_events' = Append(anomaly_events, event)
    BY <1>2, <1>6
  <2>5. anomaly_events \in Seq(BoundedEvent)
    BY DEF IInv
  <2>6. \A i \in 1..Len(anomaly_events') :
          \/ i \in 1..Len(anomaly_events) /\ anomaly_events'[i] = anomaly_events[i]
          \/ anomaly_events'[i] = event
    BY <2>2, <2>4, <2>5
  <2> QED BY <1>4, <2>1, <2>3, <2>6 DEF QuietInv, QuietStaysQuiet
<1> QED BY <1>5, <1>6

\* A sensor that has told one value since it was first seen or reset raises no
\* anomaly, whatever other sensors and earlier baselines told.
THEOREM QuietSensorsStayQuiet == Spec => []QuietStaysQuiet
<1>1. Init => QuietInv
  BY DEF Init, QuietInv, QuietStaysQuiet
<1>2. IInv /\ QuietInv /\ [Next]_vars => QuietInv'
  <2> SUFFICES ASSUME IInv, QuietInv, [Next]_vars PROVE QuietInv'
    OBVIOUS
  <2>1. CASE \E sensor \in Sensors, value \in Values : Ingest(sensor, value)
    BY <2>1, IngestQuiet
  <2>2. CASE \E sensor \in Sensors : ResetSensor(sensor)
    BY <2>2 DEF ResetSensor, IInv, QuietInv, QuietStaysQuiet
  <2>3. CASE UNCHANGED vars
    BY <2>3 DEF vars, QuietInv, QuietStaysQuiet
  <2> QED BY <2>1, <2>2, <2>3 DEF Next
<1>3. QuietInv => QuietStaysQuiet
  BY DEF QuietInv
<1> QED BY <1>1, <1>2, <1>3, Invariance, PTL DEF Spec

-----------------------------------------------------------------------------
(* Types *)

Alert == [sensor : Sensors, direction : {"up", "down"}, window : Seq(Values)]

\* The drift alerts are a sequence, too.
TypeInv == TypeOK /\ drift_alerts \in Seq(Alert)

\* The trend buffer never grows beyond its length.
LEMMA BufferedLength ==
    ASSUME NEW trend \in Seq(Values), NEW value \in Values, Len(trend) <= TrendLength
    PROVE  Len(Buffered(trend, value)) <= TrendLength
<1>1. Len(trend) \in Nat /\ TrendLength \in Nat \ {0, 1}
  BY LenProperties, DetectorAssumption
<1>2. CASE Len(trend) < TrendLength
  <2>1. Len(Append(trend, value)) = Len(trend) + 1
    BY AppendProperties
  <2> QED BY <1>1, <1>2, <2>1 DEF Buffered
<1>3. CASE ~(Len(trend) < TrendLength)
  <2>1. trend # <<>>
    <3>1. Len(trend) # 0
      BY <1>1, <1>3
    <3> QED BY <3>1, EmptySeq
  <2>2. Tail(trend) \in Seq(Values) /\ Len(Tail(trend)) = Len(trend) - 1
    BY <2>1, HeadTailProperties
  <2>3. Len(Append(Tail(trend), value)) = Len(trend) - 1 + 1
    BY <2>2, AppendProperties
  <2> QED BY <1>1, <1>3, <2>3 DEF Buffered
<1> QED BY <1>2, <1>3

LEMMA IngestType ==
    ASSUME IInv, TypeInv, NEW sensor \in Sensors, NEW value \in Values, Ingest(sensor, value)
    PROVE  TypeInv'
<1> DEFINE old == baselines[sensor]  new == Updated(old, value)
           severity == IF IsReady(new) THEN Severity(new, value) ELSE "none"
           drift == IF IsReady(new) THEN Drift(new.trend) ELSE "none"
           event == [number |-> event_counter + 1, sensor |-> sensor,
                     severity |-> severity, deviation |-> Deviation(new, value),
                     var |-> new.var, seen |-> new.seen]
           alert == [sensor |-> sensor, direction |-> drift, window |-> new.trend]
<1>1. /\ old \in Baseline \cup {NoBaseline} /\ new \in Baseline
      /\ Deviation(new, value) \in Int
  BY UpdatedBound DEF IInv
<1>2. Len(new.trend) <= TrendLength
  <2>1. CASE old = NoBaseline
    <3>1. new.trend = <<value>> /\ Len(<<value>>) = 1 /\ 1 <= TrendLength
      BY <2>1, DetectorAssumption DEF Updated, FirstBaseline
    <3> QED BY <3>1
  <2>2. CASE old # NoBaseline
    <3>1. old.trend \in Seq(Values) /\ Len(old.trend) <= TrendLength
      BY <1>1, <2>2 DEF Baseline, TypeInv, TypeOK
    <3>2. new.trend = Buffered(old.trend, value)
      BY <2>2 DEF Updated, Learned
    <3> QED BY <3>1, <3>2, BufferedLength
  <2> QED BY <2>1, <2>2
<1>3. /\ ingested < MaxReadings /\ ingested' = ingested + 1
      /\ baselines' = [baselines EXCEPT ![sensor] = new]
      /\ \/ severity = "none" /\ UNCHANGED <<event_counter, anomaly_events>>
         \/ /\ severity # "none"
            /\ event_counter' = event_counter + 1
            /\ anomaly_events' = Append(anomaly_events, event)
      /\ drift_alerts' = IF drift = "none" THEN drift_alerts ELSE Append(drift_alerts, alert)
  BY DEF Ingest, Judging
<1>4. severity \in {"none", "warning", "critical"} /\ drift \in {"none", "up", "down"}
  BY DEF Severity, Drift
<1> HIDE DEF new, severity, drift
<1>5. \A s \in Sensors :
        \/ baselines'[s] = NoBaseline
        \/ baselines'[s] \in Baseline /\ Len(baselines'[s].trend) <= TrendLength
  BY <1>1, <1>2, <1>3 DEF IInv, TypeInv, TypeOK
<1>6. drift_alerts' \in Seq(Alert)
  <2>1. CASE drift = "none"
    BY <1>3, <2>1 DEF TypeInv
  <2>2. CASE drift # "none"
    <3>1. alert \in Alert
      BY <1>1, <1>4, <2>2 DEF Alert, Baseline
    <3> QED BY <1>3, <2>2, <3>1, AppendProperties DEF TypeInv
  <2> QED BY <2>1, <2>2
<1>7. \A i \in 1..Len(drift_alerts') : drift_alerts'[i] \in Alert
  BY <1>6, ElementOfSeq
<1>8. /\ event_counter' = Len(anomaly_events')
      /\ \A i \in 1..Len(anomaly_events') :
           anomaly_events'[i] \in
             [number : {i}, sensor : Sensors, severity : {"warning", "critical"},
              deviation : Int, var : Nat, seen : SUBSET Values]
  <2>1. CASE severity = "none"
    BY <1>3, <2>1 DEF TypeInv, TypeOK
  <2>2. CASE severity # "none"
    <3>1. event_counter = Len(anomaly_events) /\ event_counter \in Nat
      BY DEF TypeInv, TypeOK, IInv
    <3>2. event \in BoundedEvent
      BY <1>1, <1>4, <2>2, <3>1 DEF BoundedEvent, Baseline
    <3>3. event \in [number : {event_counter + 1}, sensor : Sensors,
                     severity : {"warning", "critical"},
                     deviation : Int, var : Nat, seen : SUBSET Values]
      BY <1>1, <1>4, <2>2 DEF Baseline
    <3> HIDE DEF event
    <3>4. anomaly_events' = Append(anomaly_events, event) /\ event_counter' = event_counter + 1
      BY <1>3, <2>2
    <3>5. /\ Len(anomaly_events') = Len(anomaly_events) + 1
          /\ \A i \in 1..Len(anomaly_events) : anomaly_events'[i] = anomaly_events[i]
          /\ anomaly_events'[Len(anomaly_events) + 1] = event
      BY <3>2, <3>4, AppendProperties DEF IInv
    <3>6. \A i \in 1..Len(anomaly_events') : i \in 1..Len(anomaly_events) \/ i = event_counter + 1
      BY <3>1, <3>5
    <3>7. \A i \in 1..Len(anomaly_events) :
            anomaly_events[i] \in
              [number : {i}, sensor : Sensors, severity : {"warning", "critical"},
               deviation : Int, var : Nat, seen : SUBSET Values]
      BY DEF TypeInv, TypeOK
    <3> QED BY <3>1, <3>3, <3>4, <3>5, <3>6, <3>7
  <2> QED BY <2>1, <2>2
<1>9. ingested' \in 0..MaxReadings
  BY <1>3, DetectorAssumption DEF TypeInv, TypeOK
<1> QED BY <1>5, <1>6, <1>7, <1>8, <1>9 DEF TypeInv, TypeOK, Alert

LEMMA TypeInvariance == Spec => []TypeInv
<1>1. Init => TypeInv
  BY DetectorAssumption DEF Init, TypeInv, TypeOK
<1>2. IInv /\ TypeInv /\ [Next]_vars => TypeInv'
  <2> SUFFICES ASSUME IInv, TypeInv, [Next]_vars PROVE TypeInv'
    OBVIOUS
  <2>1. CASE \E sensor \in Sensors, value \in Values : Ingest(sensor, value)
    BY <2>1, IngestType
  <2>2. CASE \E sensor \in Sensors : ResetSensor(sensor)
    BY <2>2 DEF ResetSensor, IInv, TypeInv, TypeOK
  <2>3. CASE UNCHANGED vars
    BY <2>3 DEF vars, TypeInv, TypeOK
  <2> QED BY <2>1, <2>2, <2>3 DEF Next
<1> QED BY <1>1, <1>2, Invariance, PTL DEF Spec

\* The trend buffers keep their length, and the events are numbered through over
\* all sensors and resets.
THEOREM TypeCorrect == Spec => []TypeOK
<1>1. TypeInv => TypeOK
  BY DEF TypeInv
<1> QED BY <1>1, TypeInvariance, PTL

-----------------------------------------------------------------------------
(* Sums *)

\* A set of natural numbers that is not empty has a least one.
LEMMA LeastNumber ==
    ASSUME NEW T \in SUBSET Nat, T # {}
    PROVE  \E x \in T : \A y \in T : ~(y < x)
<1> DEFINE R == {ss \in Nat \X Nat : ss[1] < ss[2]}
<1>1. IsWellFoundedOn(R, Nat)
  BY NatLessThanWellFounded DEF OpToRel
<1>2. \E x \in T : \A y \in T : ~(<<y, x>> \in R)
  <2> HIDE DEF R
  <2> QED BY <1>1, WFMin
<1> QED BY <1>2

\* What a function that sums up the first n members satisfies.
IsSums(f, seq, n) ==
    f = [k \in 0..n |-> IF k = 0 THEN 0 ELSE f[k - 1] + seq[k]]

\* A sequence of numbers can be summed up: a shortest prefix that cannot be is
\* one member longer than one that can.
LEMMA SumsExist ==
    ASSUME NEW seq \in Seq(Int)
    PROVE  \E f \in [0..Len(seq) -> Int] : IsSums(f, seq, Len(seq))
<1> DEFINE Summed(n) == \E f \in [0..n -> Int] : IsSums(f, seq, n)
           T == {n \in 0..Len(seq) : ~Summed(n)}
<1>1. Summed(0)
  <2>1. [k \in 0..0 |-> 0] \in [0..0 -> Int]
    OBVIOUS
  <2>2. IsSums([k \in 0..0 |-> 0], seq, 0)
    BY DEF IsSums
  <2> QED BY <2>1, <2>2
<1>2. ASSUME NEW n \in 1..Len(seq), Summed(n - 1) PROVE Summed(n)
  <2>1. PICK f \in [0..(n - 1) -> Int] : IsSums(f, seq, n - 1)
    BY <1>2
  <2> DEFINE g == [k \in 0..n |-> IF k = n THEN f[n - 1] + seq[n] ELSE f[k]]
  <2>2. g \in [0..n -> Int]
    <3>1. n - 1 \in 0..(n - 1) /\ seq[n] \in Int
      OBVIOUS
    <3> QED BY <2>1, <3>1
  <2>3. ASSUME NEW k \in 0..n
        PROVE  g[k] = IF k = 0 THEN 0 ELSE g[k - 1] + seq[k]
    <3>1. CASE k = n
      BY <3>1
    <3>2. CASE k # n
      <4>1. k \in 0..(n - 1)
        BY <3>2
      <4>2. f[k] = IF k = 0 THEN 0 ELSE f[k - 1] + seq[k]
        BY <2>1, <4>1 DEF IsSums
      <4> QED BY <4>1, <4>2
    <3> QED BY <3>1, <3>2
  <2>4. IsSums(g, seq, n)
    BY <2>2, <2>3 DEF IsSums
  <2> QED BY <2>2, <2>4
<1>3. T = {}
  <2> SUFFICES ASSUME T # {} PROVE FALSE
    OBVIOUS
  <2>1. PICK n \in T : \A m \in T : ~(m < n)
    <3>1. T \in SUBSET Nat /\ T # {}
      OBVIOUS
    <3> HIDE DEF T
    <3> QED BY <3>1, LeastNumber
  <2>2. n \in 0..Len(seq) /\ ~Summed(n)
    OBVIOUS
  <2> HIDE DEF Summed
  <2>3. n # 0
    BY <1>1, <2>2
  <2>4. n - 1 \in 0..Len(seq) /\ n \in 1..Len(seq) /\ n - 1 < n
    BY <2>2, <2>3
  <2>5. Summed(n - 1)
    BY <2>1, <2>4
  <2> QED BY <1>2, <2>2, <2>4, <2>5
<1> QED BY <1>3

\* The sums of the model are such a function.
LEMMA SumsRule ==
    ASSUME NEW seq \in Seq(Int), NEW k \in 0..Len(seq)
    PROVE  Sums(seq)[k] = IF k = 0 THEN 0 ELSE Sums(seq)[k - 1] + seq[k]
<1>1. PICK f \in [0..Len(seq) -> Int] : IsSums(f, seq, Len(seq))
  BY SumsExist
<1> DEFINE Good(g) == g = [n \in 0..Len(seq) |-> IF n = 0 THEN 0 ELSE g[n - 1] + seq[n]]
<1>2. Sums(seq) = CHOOSE g : Good(g)
  BY Zenon DEF Sums
<1>3. Good(f)
  BY <1>1, Zenon DEF IsSums
<1>4. Good(Sums(seq))
  <2> HIDE DEF Good
  <2> QED BY <1>2, <1>3
<1> DEFINE sums == Sums(seq)
<1>5. sums = [n \in 0..Len(seq) |-> IF n = 0 THEN 0 ELSE sums[n - 1] + seq[n]]
  BY <1>4
<1> HIDE DEF sums
<1>6. sums[k] = IF k = 0 THEN 0 ELSE sums[k - 1] + seq[k]
  BY <1>5
<1> QED BY <1>6 DEF sums

LEMMA SumType ==
    ASSUME NEW seq \in Seq(Int)
    PROVE  Sum(seq) \in Int
<1> DEFINE T == {n \in 0..Len(seq) : Sums(seq)[n] \notin Int}
<1>1. T = {}
  <2> SUFFICES ASSUME T # {} PROVE FALSE
    OBVIOUS
  <2>1. PICK n \in T : \A m \in T : ~(m < n)
    <3>1. T \in SUBSET Nat /\ T # {}
      OBVIOUS
    <3> HIDE DEF T
    <3> QED BY <3>1, LeastNumber
  <2>2. n \in 0..Len(seq) /\ Sums(seq)[n] \notin Int
    OBVIOUS
  <2>3. n # 0
    BY <2>2, SumsRule
  <2>4. n - 1 \in 0..Len(seq) /\ n - 1 < n /\ n \in 1..Len(seq)
    BY <2>2, <2>3
  <2>5. Sums(seq)[n - 1] \in Int /\ seq[n] \in Int
    BY <2>1, <2>4
  <2>6. Sums(seq)[n] = Sums(seq)[n - 1] + seq[n]
    BY <2>2, <2>3, SumsRule
  <2> QED BY <2>2, <2>5, <2>6
<1>2. Len(seq) \in 0..Len(seq)
  OBVIOUS
<1> QED BY <1>1, <1>2 DEF Sum

\* sum([]) is 0.
LEMMA SumOfNone == Sum(<<>>) = 0
<1>1. <<>> \in Seq(Int) /\ Len(<<>>) = 0 /\ 0 \in 0..Len(<<>>)
  OBVIOUS
<1> QED BY <1>1, SumsRule DEF Sum

-----------------------------------------------------------------------------
(* Drift *)

LEMMA SignOfProduct ==
    ASSUME NEW x \in Int, NEW d \in Nat, d > 0
    PROVE  x * d > 0 <=> x > 0
<1>1. CASE x > 0
  <2>1. x \in Nat \ {0} /\ d \in Nat \ {0}
    BY <1>1
  <2>2. x * d > 0
    BY <2>1, SMT
  <2> QED BY <1>1, <2>2
<1>2. CASE ~(x > 0)
  <2>1. -x \in Nat
    BY <1>2
  <2>2. (-x) * d \in Nat
    BY <2>1, ProductIsNat
  <2>3. x * d = -((-x) * d)
    BY SMT
  <2> QED BY <1>2, <2>2, <2>3
<1> QED BY <1>1, <1>2

\* The halves of a window that drifts have something in them, and the shift has
\* the sign of the difference of the means: dividing by the magnitude of the
\* first mean does not turn it round.
LEMMA DriftTells ==
    ASSUME NEW w \in Seq(Int), Drift(w) # "none"
    PROVE  Drift(w) = "up" <=> FirstSum(w) * (Len(w) - Half(w)) < SecondSum(w) * Half(w)
<1> DEFINE first == FirstSum(w)  second == SecondSum(w)
           half == Half(w)  rest == Len(w) - Half(w)
<1>1. half \in Nat /\ rest \in Nat /\ half <= rest /\ half + 1 \in Nat /\ half <= Len(w)
  BY DEF Half
<1>2. SubSeq(w, 1, half) \in Seq(Int) /\ SubSeq(w, half + 1, Len(w)) \in Seq(Int)
  <2> HIDE DEF half
  <2>1. \A i \in 1..half : i \in 1..Len(w)
    BY <1>1
  <2>2. \A i \in (half + 1)..Len(w) : i \in 1..Len(w)
    BY <1>1
  <2>3. \A i \in 1..Len(w) : w[i] \in Int
    OBVIOUS
  <2> QED BY <1>1, <2>1, <2>2, <2>3, SubSeqProperties
<1>3. first \in Int /\ second \in Int
  BY <1>2, SumType DEF FirstSum, SecondSum
<1>4. first # 0
  BY DEF Drift
<1>5. half # 0
  <2> SUFFICES ASSUME half = 0 PROVE FALSE
    OBVIOUS
  <2>1. SubSeq(w, 1, half) = <<>>
    <3>1. SubSeq(w, 1, 0) = <<>>
      OBVIOUS
    <3> QED BY <3>1
  <2>2. first = 0
    BY <2>1, SumOfNone DEF FirstSum
  <2> QED BY <1>4, <2>2
<1> DEFINE num == second * half - first * rest
           den == Magnitude(first) * rest
<1>6. Drift(w) = "up" <=> num * den > 0
  <2>1. Shift(w) = [num |-> num, den |-> den]
    BY DEF Shift
  <2>2. Shift(w).num = num /\ Shift(w).den = den
    BY <2>1
  <2> HIDE DEF num, den
  <2>3. Drift(w) = IF Shift(w).num * Shift(w).den > 0 THEN "up" ELSE "down"
    BY DEF Drift
  <2> QED BY <2>2, <2>3
<1> HIDE DEF first, second, half, rest
<1>7. num \in Int /\ (num > 0 <=> first * rest < second * half)
  <2>1. first * rest \in Int /\ second * half \in Int
    BY <1>1, <1>3
  <2> QED BY <2>1
<1>8. den \in Nat /\ den > 0
  <2>1. Magnitude(first) \in Nat \ {0}
    BY <1>3, <1>4 DEF Magnitude
  <2>2. rest \in Nat /\ rest > 0
    BY <1>1, <1>5
  <2>3. Magnitude(first) * rest > 0
    BY <2>1, <2>2, SignOfProduct
  <2>4. Magnitude(first) * rest \in Nat
    BY <2>1, <2>2, ProductIsNat
  <2> QED BY <2>3, <2>4
<1>9. num * den > 0 <=> num > 0
  <2> HIDE DEF num, den
  <2> QED BY <1>7, <1>8, SignOfProduct
<1> QED BY <1>6, <1>7, <1>9 DEF first, second, half, rest

LEMMA IngestDrift ==
    ASSUME IInv, TypeInv, DriftDirectionTrue,
           NEW sensor \in Sensors, NEW value \in Values, Ingest(sensor, value)
    PROVE  DriftDirectionTrue'
<1> DEFINE Told(alert) ==
             alert.direction = "up" <=>
               FirstSum(alert.window) * (Len(alert.window) - Half(alert.window))
                 < SecondSum(alert.window) * Half(alert.window)
           new == Updated(baselines[sensor], value)
           drift == IF IsReady(new) THEN Drift(new.trend) ELSE "none"
           alert == [sensor |-> sensor, direction |-> drift, window |-> new.trend]
<1>1. new \in Baseline
  <2>1. baselines[sensor] \in Baseline \cup {NoBaseline}
    BY DEF IInv
  <2> QED BY <2>1, UpdatedBound
<1>2. drift_alerts' = IF drift = "none" THEN drift_alerts ELSE Append(drift_alerts, alert)
  BY DEF Ingest
<1>3. drift_alerts \in Seq(Alert) /\ \A i \in 1..Len(drift_alerts) : Told(drift_alerts[i])
  BY DEF TypeInv, DriftDirectionTrue
<1>4. CASE drift = "none"
  BY <1>2, <1>4 DEF DriftDirectionTrue
<1>5. CASE drift # "none"
  <2>1. new.trend \in Seq(Int)
    <3>1. new.trend \in Seq(Values) /\ Values \subseteq Int
      BY <1>1, DetectorAssumption DEF Baseline
    <3> HIDE DEF new
    <3>2. PICK n \in Nat : new.trend \in [1..n -> Values]
      BY <3>1, SeqDef
    <3>3. new.trend \in [1..n -> Int]
      BY <3>1, <3>2
    <3> QED BY <3>3, SeqDef
  <2>2. drift = Drift(new.trend) /\ Drift(new.trend) # "none"
    BY <1>5
  <2>3. Told(alert)
    <3> HIDE DEF new, drift
    <3>1. alert.direction = drift /\ alert.window = new.trend
      OBVIOUS
    <3> QED BY <2>1, <2>2, <3>1, DriftTells
  <2>4. alert \in Alert
    <3>1. drift \in {"up", "down"}
      BY <2>2 DEF Drift
    <3>2. new.trend \in Seq(Values)
      BY <1>1 DEF Baseline
    <3> HIDE DEF new, drift
    <3> QED BY <3>1, <3>2 DEF Alert
  <2> HIDE DEF alert, Told
  <2>5. drift_alerts' = Append(drift_alerts, alert)
    BY <1>2, <1>5
  <2>6. \A i \in 1..Len(drift_alerts') :
          \/ i \in 1..Len(drift_alerts) /\ drift_alerts'[i] = drift_alerts[i]
          \/ drift_alerts'[i] = alert
    BY <1>3, <2>4, <2>5
  <2>7. \A i \in 1..Len(drift_alerts') : Told(drift_alerts'[i])
    BY <1>3, <2>3, <2>6
  <2> QED BY <2>7 DEF DriftDirectionTrue, Told
<1> QED BY <1>4, <1>5

\* Every drift alert ever raised tells the direction in which the mean of its
\* window moved, also for readings below zero (_detect_drift, abs(mean_first)).
THEOREM DriftIsTold == Spec => []DriftDirectionTrue
<1>1. Init => DriftDirectionTrue
  BY DEF Init, DriftDirectionTrue
<1>2. IInv /\ TypeInv /\ DriftDirectionTrue /\ [Next]_vars => DriftDirectionTrue'
  <2> SUFFICES ASSUME IInv, TypeInv, DriftDirectionTrue, [Next]_vars
               PROVE  DriftDirectionTrue'
    OBVIOUS
  <2>1. CASE \E sensor \in Sensors, value \in Values : Ingest(sensor, value)
    BY <2>1, IngestDrift
  <2>2. CASE \E sensor \in Sensors : ResetSensor(sensor)
    BY <2>2 DEF ResetSensor, DriftDirectionTrue
  <2>3. CASE UNCHANGED vars
    BY <2>3 DEF vars, DriftDirectionTrue
  <2> QED BY <2>1, <2>2, <2>3 DEF Next
<1> QED BY <1>1, <1>2, TypeInvariance, Invariance, PTL DEF Spec
=============================================================================
