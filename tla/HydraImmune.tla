---------------------------- MODULE HydraImmune -----------------------------
(* The threat engine of security/hydra_immune.py.                            *)
(*                                                                           *)
(* The list `threats` is a set of records: its order decides nothing but the *)
(* order of the proposals of a tick.  A threat id is <<tick, zone>> for a    *)
(* threat the scan finds ("THREAT-{tick}-{zone}") and a member of ExternalIds *)
(* for one handed to record_threat; the two may overlap.  Levels are the     *)
(* values of ThreatLevel, and response_threshold is a percentage, so that    *)
(* level / 4 < threshold is 25 * level < ThresholdPct.                       *)
(*                                                                           *)
(* record_threat() takes a Threat as its caller built it: nothing checks its *)
(* four response fields, so it may come in flagged, resolved or dated, and a *)
(* threat that was pruned may be recorded again.  `handed` is the history of *)
(* a threat: those four fields as they were when it was recorded.            *)
EXTENDS Integers, FiniteSets

CONSTANTS
    Zones,            \* zone ids of the snapshots
    ExternalIds,      \* ids of the threats handed to record_threat
    Levels,           \* their levels, a subset of 0..4
    TickNums,         \* tick numbers passed to tick()
    Refs,             \* resolution references
    NoRef,            \* resolution_ref = None
    NoTime,           \* resolved_at = None
    Handed,           \* the response fields of the threats handed to record_threat
    AliasWrites,      \* values callers assign to Threat.mitigated
    ThresholdPct,     \* 100 * response_threshold
    MaxActive,        \* max_active_threats
    AutoPropose,      \* auto_propose
    Retention,        \* resolved_retention_seconds
    MaxTime,          \* bound: the clock stops here
    MaxResolutions,   \* bound: receipts acknowledged in a behaviour
    MaxForgotten      \* bound: no threat is handed over once this many were pruned

\* HydraImmune.__post_init__
ASSUME ConfigAssumption ==
    /\ ThresholdPct \in 0..100
    /\ MaxActive \in Nat \ {0}
    /\ AutoPropose \in BOOLEAN
    /\ Retention \in Nat

\* The response fields of a Threat, and those of one built with its defaults.
ResponseFields == [proposed : BOOLEAN, resolved : BOOLEAN, ref : {NoRef} \cup Refs,
                   at : {NoTime} \cup Int]
Fresh == [proposed |-> FALSE, resolved |-> FALSE, ref |-> NoRef, at |-> NoTime]

ASSUME InputAssumption ==
    /\ TickNums \subseteq Nat
    /\ Levels \subseteq 0..4
    /\ NoRef \notin Refs /\ NoTime \notin Int
    /\ Handed \subseteq ResponseFields
    /\ AliasWrites \subseteq BOOLEAN
    /\ MaxTime \in Nat
    /\ MaxResolutions \in Nat /\ MaxForgotten \in Nat

ASSUME FiniteAssumption ==
    IsFiniteSet(Zones) /\ IsFiniteSet(TickNums) /\ IsFiniteSet(ExternalIds)

VARIABLES
    threats,                   \* threats
    response_proposed_count,
    resolution_count,
    tick_count,
    anomalies,                 \* the anomaly types of the last tick
    actions,                   \* the ids the last tick proposed a response to
    now,                       \* what clock() returns
    pruned                     \* history: how many of the threats pruned so far the
                               \* engine had proposed, and acknowledged

vars == <<threats, response_proposed_count, resolution_count, tick_count,
          anomalies, actions, now, pruned>>

ThreatIds == (TickNums \X Zones) \cup ExternalIds
HIGH == 3

Threat == [id : ThreatIds, level : 0..4, proposed : BOOLEAN, resolved : BOOLEAN,
           ref : {NoRef} \cup Refs, at : {NoTime} \cup Int, handed : ResponseFields]

NewThreat_OneBased(id, level, fields) ==
    [id |-> id, level |-> level + 1, proposed |-> fields.proposed,
     resolved |-> fields.resolved, ref |-> fields.ref, at |-> fields.at, handed |-> fields]
NewThreat(id, level, fields) ==
    [id |-> id, level |-> level, proposed |-> fields.proposed,
     resolved |-> fields.resolved, ref |-> fields.ref, at |-> fields.at, handed |-> fields]

Init ==
    /\ threats = {}
    /\ response_proposed_count = 0 /\ resolution_count = 0 /\ tick_count = 0
    /\ anomalies = {} /\ actions = {}
    /\ now = 0
    /\ pruned = [proposed |-> 0, acknowledged |-> 0]

-----------------------------------------------------------------------------
ActiveOf(ts) == {t \in ts : ~t.resolved}

ActiveThreats == ActiveOf(threats)

\* The highest level of the active threats, 0 (NONE) when there is none.
CurrentThreatLevel ==
    IF ActiveThreats = {} THEN 0
    ELSE CHOOSE l \in 0..4 : /\ \E t \in ActiveThreats : t.level = l
                             /\ \A t \in ActiveThreats : t.level <= l

\* A threat is appended unless its id is already in the history, resolved or not.
Recorded_NoDedup(ts, new) == ts \cup new
Recorded(ts, new) == ts \cup {t \in new : \A s \in ts : s.id # t.id}

\* The threats _propose_responses flags, and the history once it has.
Due_Reproposed(ts) ==
    {t \in ActiveOf(ts) : AutoPropose /\ 25 * t.level >= ThresholdPct}
Due(ts) ==
    {t \in ActiveOf(ts) : AutoPropose /\ ~t.proposed /\ 25 * t.level >= ThresholdPct}
Proposed_Resolved(ts) ==
    (ts \ Due(ts)) \cup {[t EXCEPT !.proposed = TRUE, !.resolved = TRUE] : t \in Due(ts)}
Proposed(ts) == (ts \ Due(ts)) \cup {[t EXCEPT !.proposed = TRUE] : t \in Due(ts)}

\* What _prune_resolved_history drops.
Expired_AnyAge(ts) == {t \in ts : t.at # NoTime /\ t.at < now - Retention}
Expired_Overflow(ts) ==
    {t \in ts : \/ t.resolved /\ t.at # NoTime /\ t.at < now - Retention
                \/ Cardinality(ActiveOf(ts)) > MaxActive /\ ~t.resolved}
Expired(ts) ==
    {t \in ts : t.resolved /\ t.at # NoTime /\ t.at < now - Retention}

\* History: the threats this engine proposed a response to, and those it took a
\* receipt for, as opposed to those that came in flagged or resolved.
ProposedHere(ts) == {t \in ts : t.proposed /\ ~t.handed.proposed}
AcknowledgedHere(ts) == {t \in ts : t.resolved /\ ~t.handed.resolved}

Overflow(ts) ==
    IF Cardinality(ActiveOf(ts)) > MaxActive THEN {"THREAT_OVERFLOW"} ELSE {}

-----------------------------------------------------------------------------
\* tick() on a snapshot whose zones in `suspicious` declare suspicious activity.
Tick(n, suspicious) ==
    LET recorded == Recorded(threats, {NewThreat(<<n, z>>, HIGH, Fresh) : z \in suspicious})
        proposed == Proposed(recorded)
        expired  == Expired(proposed)
    IN  /\ tick_count' = n
        /\ threats' = proposed \ expired
        /\ response_proposed_count' = response_proposed_count + Cardinality(Due(recorded))
        /\ actions' = {t.id : t \in Due(recorded)}
        /\ anomalies' = Overflow(proposed \ expired)
        /\ pruned' = [proposed |-> pruned.proposed
                                     + Cardinality(ProposedHere(expired)),
                      acknowledged |-> pruned.acknowledged
                                         + Cardinality(AcknowledgedHere(expired))]
        /\ UNCHANGED <<resolution_count, now>>

\* tick() on a snapshot with a malformed zone: the scan raises before anything
\* is recorded, after the tick number and the two lists are overwritten.
TickRejected(n) ==
    /\ tick_count' = n
    /\ anomalies' = {} /\ actions' = {}
    /\ UNCHANGED <<threats, response_proposed_count, resolution_count, now, pruned>>

RecordThreat(id, level, fields) ==
    /\ pruned.proposed + pruned.acknowledged < MaxForgotten
    /\ threats' = Recorded(threats, {NewThreat(id, level, fields)})
    /\ UNCHANGED <<response_proposed_count, resolution_count, tick_count,
                   anomalies, actions, now, pruned>>

Acknowledged_NoReceipt(t, ref) == [t EXCEPT !.resolved = TRUE, !.at = now]
Acknowledged(t, ref) == [t EXCEPT !.resolved = TRUE, !.ref = ref, !.at = now]

\* The threats mark_resolved() looks for: the receipt of a threat that is already
\* resolved is ignored.
Awaiting_Any(id) == {t \in threats : t.id = id}
Awaiting(id) == {t \in threats : t.id = id /\ ~t.resolved}

MarkResolved(id, ref) ==
    /\ resolution_count < MaxResolutions
    /\ \E t \in Awaiting(id) : threats' = (threats \ {t}) \cup {Acknowledged(t, ref)}
    /\ resolution_count' = resolution_count + 1
    /\ UNCHANGED <<response_proposed_count, tick_count, anomalies, actions, now, pruned>>

\* threat.mitigated = value, on a threat a caller holds.
SetMitigated(id, value) ==
    /\ \E t \in threats :
         /\ t.id = id
         /\ threats' = (threats \ {t}) \cup {[t EXCEPT !.resolved = value]}
    /\ UNCHANGED <<response_proposed_count, resolution_count, tick_count,
                   anomalies, actions, now, pruned>>

Advance ==
    /\ now < MaxTime
    /\ now' = now + 1
    /\ UNCHANGED <<threats, response_proposed_count, resolution_count, tick_count,
                   anomalies, actions, pruned>>

\* What callers do to the engine other than ticking it.
Caller ==
    \/ \E id \in ExternalIds, level \in Levels, fields \in Handed :
         RecordThreat(id, level, fields)
    \/ \E id \in ThreatIds, ref \in Refs : MarkResolved(id, ref)
    \/ \E id \in ThreatIds, value \in AliasWrites : SetMitigated(id, value)
    \/ Advance

Next ==
    \/ \E n \in TickNums, suspicious \in SUBSET Zones : Tick(n, suspicious)
    \/ \E n \in TickNums : TickRejected(n)
    \/ Caller

Spec == Init /\ [][Next]_vars

-----------------------------------------------------------------------------
(* Properties *)

\* Every variable keeps the type its field declares.
TypeOK ==
    /\ threats \subseteq Threat
    /\ response_proposed_count \in Nat /\ resolution_count \in Nat
    /\ tick_count \in Nat
    /\ anomalies \subseteq {"THREAT_OVERFLOW"}
    /\ actions \subseteq ThreatIds
    /\ now \in Nat
    /\ pruned \in [proposed : Nat, acknowledged : Nat]

\* The history never holds two threats with one id, whatever mix of replayed
\* snapshots, external records, prunings and resolutions led to it
\* (record_threat's scan of the list; mark_resolved relies on it).
UniqueIds == \A s, t \in threats : s.id = t.id => s = t

\* response_proposed_count counts each threat the engine flagged once, for as
\* long as it is remembered and after, also when it is resolved, reopened
\* through the alias and swept again, when it came in flagged, and when it was
\* pruned and is recorded again (_propose_responses).
ProposalAccounting ==
    response_proposed_count = pruned.proposed + Cardinality(ProposedHere(threats))

\* A threat leaves the history only when it is resolved and its resolution is
\* older than the retention, and it then carries a receipt, unless it was handed
\* over with a date and no receipt (_prune_resolved_history and README.md:18,
\* "unresolved-threat retention rather than silent age-based deletion"); until
\* then its level, its flag and its receipt's presence are kept.
DatedWithoutReceipt(t) == t.at # NoTime /\ t.ref = NoRef
ForgottenOnlyAfterRetention ==
    [][\A t \in threats :
         \/ /\ t.resolved /\ t.at # NoTime /\ t.at + Retention < now
            /\ t.ref # NoRef \/ DatedWithoutReceipt(t.handed)
         \/ \E s \in threats' : /\ s.id = t.id /\ s.level = t.level
                                /\ t.proposed => s.proposed
                                /\ t.ref # NoRef => s.ref # NoRef]_vars

\* A threat that was resolved since it was recorded carries the receipt that
\* resolved it, and its time (README.md:17).  It holds where no caller writes
\* the mitigated alias.
ResolvedHasReceipt ==
    \A t \in AcknowledgedHere(threats) : t.ref # NoRef /\ t.at # NoTime

\* resolution_count is the number of receipts the engine ever accepted: those of
\* the threats resolved here, in the history or pruned from it, whatever
\* receipts other threats came in with (mark_resolved).  It holds where no
\* caller writes the mitigated alias.
ResolutionAccounting ==
    resolution_count = pruned.acknowledged + Cardinality(AcknowledgedHere(threats))

\* README.md:108, "A response proposal does not reduce the active threat level.
\* Only explicit acknowledged resolution does."
LevelDropsOnlyByReceipt ==
    [][CurrentThreatLevel' < CurrentThreatLevel
         => resolution_count' = resolution_count + 1]_vars
=============================================================================
