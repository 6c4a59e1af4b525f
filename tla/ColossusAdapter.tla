--------------------------- MODULE ColossusAdapter --------------------------
(* ColossusSecurityAdapter (xai_colossus_security/adapter.py) driving a      *)
(* HydraImmune engine: it numbers the ticks, folds the traffic patterns of a *)
(* batch into one zone snapshot and keeps the receipt of the last analysis.  *)
(* The engine's other callers (record_threat, mark_resolved, the clock) keep *)
(* running beside it; its ticks all come through the adapter.                *)
EXTENDS HydraImmune

CONSTANTS
    ExplicitTicks,    \* values callers pass as tick_num
    Batches,          \* the traffic_patterns callers pass
    AutoTick,         \* tick_num = None
    NoAnalysis        \* last_analysis = None

\* One well-formed entry of traffic_patterns.  The node id and the entropy are
\* left out: they are validated and echoed, and reach neither the zones (a node
\* without a zone_id is a zone of its own) nor the engine.
Pattern == [zone : Zones, suspicious : BOOLEAN]

ASSUME AdapterAssumption ==
    /\ ExplicitTicks \subseteq TickNums
    /\ AutoTick \notin Nat
    /\ Batches \subseteq SUBSET Pattern
    /\ \A n \in TickNums, zones \in SUBSET Zones, level \in 0..4 :
         NoAnalysis # [tick |-> n, zones |-> zones, level |-> level]

VARIABLES
    analysis_tick,
    last_analysis,    \* the receipt: its tick, declared zones and threat level
    used              \* history: the tick numbers analyses have reached the engine with

adapter_vars == <<analysis_tick, last_analysis, used>>
all_vars == <<vars, adapter_vars>>

\* A zone is suspicious when some pattern of the batch says so (|=).
SuspiciousZones(patterns) == {p.zone : p \in {q \in patterns : q.suspicious}}

\* _next_tick(): the number an analysis runs under.
EffectiveTick(request) == IF request = AutoTick THEN analysis_tick + 1 ELSE request

\* The receipt of the analysis that runs now: its level is read after the tick.
Receipt_Early(n, patterns) ==
    [tick |-> n, zones |-> SuspiciousZones(patterns), level |-> CurrentThreatLevel]
Receipt_LastNumber(n, patterns) ==
    [tick |-> analysis_tick, zones |-> SuspiciousZones(patterns), level |-> CurrentThreatLevel']
Receipt(n, patterns) ==
    [tick |-> n, zones |-> SuspiciousZones(patterns), level |-> CurrentThreatLevel']

AdapterInit ==
    /\ Init
    /\ analysis_tick = 0
    /\ last_analysis = NoAnalysis
    /\ used = {}

\* analyze_traffic_patterns() on a well-formed batch.
Analyze(request, patterns) ==
    LET n == EffectiveTick(request)
    IN  /\ n \in TickNums
        /\ Tick(n, SuspiciousZones(patterns))
        /\ analysis_tick' = n
        /\ last_analysis' = Receipt(n, patterns)
        /\ used' = used \cup {n}

\* ... on a batch with a malformed entry: the number is consumed, the engine is
\* not reached and the last receipt stays.
AnalyzeRejected(request) ==
    /\ EffectiveTick(request) \in TickNums
    /\ analysis_tick' = EffectiveTick(request)
    /\ UNCHANGED <<vars, last_analysis, used>>

AdapterNext ==
    \/ \E request \in ExplicitTicks \cup {AutoTick} :
         \/ \E patterns \in Batches : Analyze(request, patterns)
         \/ AnalyzeRejected(request)
    \/ Caller /\ UNCHANGED adapter_vars

AdapterSpec == AdapterInit /\ [][AdapterNext]_all_vars

-----------------------------------------------------------------------------
(* Properties of the composition *)

\* After an analysis under a number not analysed before, every zone some node
\* declared suspicious has an active threat, proposed when its level calls for
\* it, and the receipt's level shows it.  (Under a repeated number, or when an
\* external threat has taken the id, a declared zone may stay silent:
\* record_threat meets the resolved threat of that id.)
DeclaredSuspicionActive ==
    [][\A n \in used' \ used : \A z \in last_analysis'.zones :
         /\ last_analysis'.tick = n
         /\ last_analysis'.level >= HIGH
         /\ \E t \in ActiveThreats' :
              t.id = <<n, z>> /\ (AutoPropose /\ 25 * HIGH >= ThresholdPct => t.proposed)
      ]_all_vars

\* The receipt the adapter shows is of the engine's last tick, whatever batches
\* were refused in between and whatever numbers they consumed.
ReceiptIsOfLastTick ==
    IF last_analysis = NoAnalysis THEN tick_count = 0 /\ used = {}
    ELSE last_analysis.tick = tick_count /\ tick_count \in used

\* The standing of each id, as a ledger of the promises made to operators.
StandingOf(ts, id) ==
    IF \A t \in ts : t.id # id THEN "absent"
    ELSE IF \E t \in ts : t.id = id /\ ~t.resolved THEN "active"
    ELSE "resolved"
Ledger == INSTANCE ThreatLedger WITH
    ledger <- [id \in ThreatIds |-> StandingOf(threats, id)]

\* The engine under the adapter keeps the ledger's promises, where no caller
\* writes the mitigated alias.
LedgerSpec == Ledger!Spec
=============================================================================
