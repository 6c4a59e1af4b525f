-------------------------- MODULE HydraImmuneProofs -------------------------
(* Theorems about HydraImmune and the adapter over it, for every value of    *)
(* their constants, the fields that threats are handed over with included.   *)
(* The inductive invariant of the engine is IInv: TypeOK and UniqueIds, that *)
(* the history is finite (tick() counts it), that a date without a receipt   *)
(* came in with its threat (pruning looks at the date, the promises speak of *)
(* the receipt), and that a threat that came in flagged stays flagged.  The  *)
(* adapter's steps are steps of the engine, so that what is proved of every  *)
(* engine holds of this one; and where no caller writes the mitigated alias, *)
(* they are steps of ThreatLedger.                                           *)
EXTENDS ColossusAdapter, FiniteSetTheorems, TLAPS

\* mark_resolved sets a receipt with its date; only a caller has one without the other.
DatesExplained ==
    \A t \in threats : DatedWithoutReceipt(t) => DatedWithoutReceipt(t.handed)

\* Nothing takes a flag back.
FlagsStay == \A t \in threats : t.handed.proposed => t.proposed

IInv ==
    /\ TypeOK
    /\ UniqueIds
    /\ IsFiniteSet(threats)
    /\ DatesExplained /\ FlagsStay

\* A threat as it was when it was recorded.
Untouched(t) ==
    /\ t.proposed = t.handed.proposed /\ t.resolved = t.handed.resolved
    /\ t.ref = t.handed.ref /\ t.at = t.handed.at

-----------------------------------------------------------------------------
(* The helpers on sets of threats *)

\* What the sweep of proposals makes of one threat.
Flagged(t) == [t EXCEPT !.proposed = TRUE]

\* Flagging a threat changes its flag, acknowledging it its resolution.
LEMMA FlaggedFields ==
    ASSUME NEW t \in Threat
    PROVE  /\ Flagged(t) \in Threat
           /\ Flagged(t).id = t.id /\ Flagged(t).level = t.level /\ Flagged(t).proposed
           /\ Flagged(t).resolved = t.resolved /\ Flagged(t).ref = t.ref
           /\ Flagged(t).at = t.at /\ Flagged(t).handed = t.handed
<1>1. Flagged(t) \in Threat
  BY Zenon DEF Flagged, Threat
<1>2. /\ Flagged(t).id = t.id /\ Flagged(t).level = t.level /\ Flagged(t).proposed
      /\ Flagged(t).resolved = t.resolved /\ Flagged(t).ref = t.ref
      /\ Flagged(t).at = t.at /\ Flagged(t).handed = t.handed
  BY DEF Flagged, Threat
<1> QED BY <1>1, <1>2

LEMMA AcknowledgedFields ==
    ASSUME NEW t \in Threat, NEW ref \in Refs, now \in Int
    PROVE  /\ Acknowledged(t, ref) \in Threat
           /\ Acknowledged(t, ref).id = t.id /\ Acknowledged(t, ref).level = t.level
           /\ Acknowledged(t, ref).resolved /\ Acknowledged(t, ref).ref = ref
           /\ Acknowledged(t, ref).at = now /\ Acknowledged(t, ref).proposed = t.proposed
           /\ Acknowledged(t, ref).handed = t.handed
<1>1. Acknowledged(t, ref) \in Threat
  BY DEF Acknowledged, Threat
<1>2. /\ Acknowledged(t, ref).id = t.id /\ Acknowledged(t, ref).level = t.level
      /\ Acknowledged(t, ref).resolved /\ Acknowledged(t, ref).ref = ref
      /\ Acknowledged(t, ref).at = now /\ Acknowledged(t, ref).proposed = t.proposed
      /\ Acknowledged(t, ref).handed = t.handed
  BY DEF Acknowledged, Threat
<1> QED BY <1>1, <1>2

\* The image of a finite set under a function is finite, and as large when the
\* function is one-to-one.
LEMMA FiniteImage ==
    ASSUME NEW S, IsFiniteSet(S), NEW f, f = [x \in S |-> f[x]]
    PROVE  /\ IsFiniteSet({f[x] : x \in S})
           /\ (\A x, y \in S : f[x] = f[y] => x = y)
                => Cardinality({f[x] : x \in S}) = Cardinality(S)
<1> DEFINE T == {f[x] : x \in S}
<1>1. f \in [S -> T]
  OBVIOUS
<1>2. f \in Surjection(S, T)
  BY <1>1 DEF Surjection
<1>3. IsFiniteSet(T) /\ (Cardinality(T) = Cardinality(S) <=> f \in Injection(S, T))
  BY <1>2, FS_Surjection
<1>4. (\A x, y \in S : f[x] = f[y] => x = y) => f \in Injection(S, T)
  BY <1>1 DEF Injection, IsInjective
<1> QED BY <1>3, <1>4

\* What the scan detects at one tick is a finite set of threats with distinct ids.
LEMMA DetectedType ==
    ASSUME NEW n \in TickNums, NEW suspicious \in SUBSET Zones
    PROVE  LET new == {NewThreat(<<n, z>>, HIGH, Fresh) : z \in suspicious}
           IN  /\ new \subseteq Threat
               /\ IsFiniteSet(new)
               /\ \A s, t \in new : s.id = t.id => s = t
               /\ \A t \in new : /\ ~t.resolved /\ ~t.proposed /\ t.handed = Fresh
                                 /\ Untouched(t) /\ t.id \in {n} \X suspicious
<1> DEFINE new == {NewThreat(<<n, z>>, HIGH, Fresh) : z \in suspicious}
<1>1. new \subseteq Threat
  <2>1. ASSUME NEW z \in suspicious PROVE NewThreat(<<n, z>>, HIGH, Fresh) \in Threat
    <3>1. <<n, z>> \in ThreatIds
      BY DEF ThreatIds
    <3>2. Fresh \in ResponseFields /\ HIGH \in 0..4
      BY DEF Fresh, ResponseFields, HIGH
    <3>3. /\ Fresh.proposed \in BOOLEAN /\ Fresh.resolved \in BOOLEAN
          /\ Fresh.ref \in {NoRef} \cup Refs /\ Fresh.at \in {NoTime} \cup Int
      BY DEF Fresh
    <3> QED BY <3>1, <3>2, <3>3 DEF NewThreat, Threat
  <2> QED BY <2>1
<1>2. IsFiniteSet(new)
  <2>1. IsFiniteSet(suspicious)
    BY FiniteAssumption, FS_Subset
  <2> DEFINE f == [z \in suspicious |-> NewThreat(<<n, z>>, HIGH, Fresh)]
  <2>2. IsFiniteSet({f[z] : z \in suspicious})
    <3> HIDE DEF f
    <3>1. f = [z \in suspicious |-> f[z]]
      BY DEF f
    <3> QED BY <2>1, <3>1, FiniteImage
  <2>3. new = {f[z] : z \in suspicious}
    OBVIOUS
  <2> QED BY <2>2, <2>3
<1>3. \A s, t \in new : s.id = t.id => s = t
  <2> SUFFICES ASSUME NEW y \in suspicious, NEW z \in suspicious,
                      NewThreat(<<n, y>>, HIGH, Fresh).id = NewThreat(<<n, z>>, HIGH, Fresh).id
               PROVE  y = z
    OBVIOUS
  <2>1. <<n, y>> = <<n, z>>
    BY DEF NewThreat
  <2> QED BY <2>1
<1>4. \A t \in new : /\ ~t.resolved /\ ~t.proposed /\ t.handed = Fresh
                     /\ Untouched(t) /\ t.id \in {n} \X suspicious
  <2> SUFFICES ASSUME NEW z \in suspicious
               PROVE  LET t == NewThreat(<<n, z>>, HIGH, Fresh)
                      IN  /\ ~t.resolved /\ ~t.proposed /\ t.handed = Fresh
                          /\ Untouched(t) /\ t.id \in {n} \X suspicious
    OBVIOUS
  <2>1. ~Fresh.resolved /\ ~Fresh.proposed
    BY DEF Fresh
  <2> QED BY <2>1 DEF NewThreat, Untouched
<1> QED BY <1>1, <1>2, <1>3, <1>4

\* Recording new threats with distinct ids keeps ids distinct and keeps the
\* receipts of the history as they are.
LEMMA RecordedKeeps ==
    ASSUME NEW ts \in SUBSET Threat, NEW new \in SUBSET Threat,
           IsFiniteSet(ts), IsFiniteSet(new),
           \A s, t \in ts : s.id = t.id => s = t,
           \A s, t \in new : s.id = t.id => s = t
    PROVE  /\ Recorded(ts, new) \in SUBSET Threat
           /\ IsFiniteSet(Recorded(ts, new))
           /\ ts \subseteq Recorded(ts, new)
           /\ Recorded(ts, new) \subseteq ts \cup new
           /\ \A s \in Recorded(ts, new) : s \in ts \/ \A t \in ts : t.id # s.id
           /\ \A s, t \in Recorded(ts, new) : s.id = t.id => s = t
<1>1. Recorded(ts, new) \subseteq ts \cup new /\ ts \subseteq Recorded(ts, new)
  BY DEF Recorded
<1>2. IsFiniteSet(ts \cup new)
  BY FS_Union
<1>3. IsFiniteSet(Recorded(ts, new))
  BY <1>1, <1>2, FS_Subset
<1>4. \A s \in Recorded(ts, new) : s \in ts \/ \A t \in ts : t.id # s.id
  BY DEF Recorded
<1>5. \A s, t \in Recorded(ts, new) : s.id = t.id => s = t
  BY DEF Recorded
<1> QED BY <1>1, <1>3, <1>4, <1>5

\* Proposing responses changes the proposed flag of some threats and nothing else.
LEMMA ProposedKeeps ==
    ASSUME NEW ts \in SUBSET Threat, IsFiniteSet(ts),
           \A s, t \in ts : s.id = t.id => s = t
    PROVE  /\ Proposed(ts) \in SUBSET Threat
           /\ IsFiniteSet(Proposed(ts))
           /\ \A t \in ts : t \in Proposed(ts) \/ Flagged(t) \in Proposed(ts)
           /\ \A s \in Proposed(ts) : \E t \in ts : s = t \/ s = Flagged(t)
           /\ \A s, t \in Proposed(ts) : s.id = t.id => s = t
<1>1. Due(ts) \subseteq ts
  BY DEF Due, ActiveOf
<1>2. \A t \in Due(ts) : Flagged(t) \in Threat /\ Flagged(t).id = t.id
  BY <1>1, FlaggedFields
<1>3. Proposed(ts) = (ts \ Due(ts)) \cup {Flagged(t) : t \in Due(ts)}
  BY DEF Proposed, Flagged
<1>4. Proposed(ts) \in SUBSET Threat
  BY <1>2, <1>3
<1>5. IsFiniteSet(Proposed(ts))
  <2>1. IsFiniteSet(Due(ts)) /\ IsFiniteSet(ts \ Due(ts))
    BY <1>1, FS_Subset, FS_Difference
  <2>2. IsFiniteSet({Flagged(t) : t \in Due(ts)})
    <3> DEFINE f == [t \in Due(ts) |-> Flagged(t)]
    <3>1. f = [t \in Due(ts) |-> f[t]]
      OBVIOUS
    <3>2. {Flagged(t) : t \in Due(ts)} = {f[t] : t \in Due(ts)}
      OBVIOUS
    <3>3. IsFiniteSet({f[t] : t \in Due(ts)})
      <4> HIDE DEF f
      <4> QED BY <2>1, <3>1, FiniteImage
    <3> QED BY <3>2, <3>3
  <2>3. IsFiniteSet((ts \ Due(ts)) \cup {Flagged(t) : t \in Due(ts)})
    BY <2>1, <2>2, FS_Union
  <2> QED BY <2>3, <1>3
<1>6. \A t \in ts : t \in Proposed(ts) \/ Flagged(t) \in Proposed(ts)
  BY <1>3
<1>7. \A s \in Proposed(ts) : \E t \in ts : s = t \/ s = Flagged(t)
  BY <1>1, <1>3
<1>8. \A s, t \in Proposed(ts) : s.id = t.id => s = t
  <2> SUFFICES ASSUME NEW s \in Proposed(ts), NEW t \in Proposed(ts), s.id = t.id
               PROVE  s = t
    OBVIOUS
  <2>1. CASE s \in ts \ Due(ts) /\ t \in ts \ Due(ts)
    BY <2>1
  <2>2. CASE s \in ts \ Due(ts) /\ t \notin ts \ Due(ts)
    <3>1. PICK u \in Due(ts) : t = Flagged(u)
      BY <2>2, <1>3
    <3> QED BY <3>1, <2>2, <1>1, <1>2
  <2>3. CASE s \notin ts \ Due(ts) /\ t \in ts \ Due(ts)
    <3>1. PICK u \in Due(ts) : s = Flagged(u)
      BY <2>3, <1>3
    <3> QED BY <3>1, <2>3, <1>1, <1>2
  <2>4. CASE s \notin ts \ Due(ts) /\ t \notin ts \ Due(ts)
    <3>1. PICK u \in Due(ts) : s = Flagged(u)
      BY <2>4, <1>3
    <3>2. PICK v \in Due(ts) : t = Flagged(v)
      BY <2>4, <1>3
    <3> QED BY <3>1, <3>2, <1>1, <1>2
  <2> QED BY <2>1, <2>2, <2>3, <2>4
<1> QED BY <1>4, <1>5, <1>6, <1>7, <1>8

-----------------------------------------------------------------------------
(* The invariant is inductive *)

\* What one tick does to the history, in the terms of the invariant.
LEMMA TickKeeps ==
    ASSUME IInv, NEW n \in TickNums, NEW suspicious \in SUBSET Zones,
           Tick(n, suspicious)
    PROVE  /\ IInv'
           /\ \A t \in threats :
                \/ /\ t.resolved /\ t.at # NoTime /\ t.at + Retention < now
                   /\ t.ref # NoRef \/ DatedWithoutReceipt(t.handed)
                \/ t \in threats' \/ Flagged(t) \in threats'
           /\ \A s \in threats' :
                \/ \E t \in threats : s = t \/ s = Flagged(t)
                \/ /\ ~s.resolved /\ s.handed = Fresh /\ s.id \in {n} \X suspicious
                   /\ \A t \in threats : t.id # s.id
<1> DEFINE new == {NewThreat(<<n, z>>, HIGH, Fresh) : z \in suspicious}
           recorded == Recorded(threats, new)
           proposed == Proposed(recorded)
           expired == Expired(proposed)
<1>0. /\ threats \in SUBSET Threat /\ IsFiniteSet(threats)
      /\ \A s, t \in threats : s.id = t.id => s = t
  BY DEF IInv, TypeOK, UniqueIds
<1>1. /\ new \in SUBSET Threat /\ IsFiniteSet(new)
      /\ \A s, t \in new : s.id = t.id => s = t
      /\ \A t \in new : /\ ~t.resolved /\ ~t.proposed /\ t.handed = Fresh
                        /\ Untouched(t) /\ t.id \in {n} \X suspicious
  BY DetectedType
<1>2. threats' = proposed \ expired
  BY DEF Tick
<1> HIDE DEF new
<1>3. /\ recorded \in SUBSET Threat /\ IsFiniteSet(recorded)
      /\ threats \subseteq recorded /\ recorded \subseteq threats \cup new
      /\ \A s \in recorded : s \in threats \/ \A t \in threats : t.id # s.id
      /\ \A s, t \in recorded : s.id = t.id => s = t
  BY <1>0, <1>1, RecordedKeeps
<1> HIDE DEF recorded
<1>4. /\ proposed \in SUBSET Threat /\ IsFiniteSet(proposed)
      /\ \A t \in recorded : t \in proposed \/ Flagged(t) \in proposed
      /\ \A s \in proposed : \E t \in recorded : s = t \/ s = Flagged(t)
      /\ \A s, t \in proposed : s.id = t.id => s = t
  BY <1>3, ProposedKeeps
<1>5. \A t \in Threat : /\ Flagged(t) \in Threat
                        /\ Flagged(t).ref = t.ref /\ Flagged(t).at = t.at
                        /\ Flagged(t).resolved = t.resolved /\ Flagged(t).id = t.id
                        /\ Flagged(t).handed = t.handed /\ Flagged(t).proposed
  BY FlaggedFields
<1>6. \A t \in proposed : /\ DatedWithoutReceipt(t) => DatedWithoutReceipt(t.handed)
                          /\ t.handed.proposed => t.proposed
  <2>1. \A t \in recorded : /\ DatedWithoutReceipt(t) => DatedWithoutReceipt(t.handed)
                            /\ t.handed.proposed => t.proposed
    BY <1>1, <1>3 DEF IInv, DatesExplained, FlagsStay, Untouched, DatedWithoutReceipt
  <2> QED BY <2>1, <1>3, <1>4, <1>5 DEF DatedWithoutReceipt
<1>7. IsFiniteSet(Due(recorded)) /\ Due(recorded) \subseteq Threat
  <2>1. Due(recorded) \subseteq recorded
    BY DEF Due, ActiveOf
  <2> QED BY <2>1, <1>3, FS_Subset
<1>8. IsFiniteSet(ProposedHere(expired)) /\ IsFiniteSet(AcknowledgedHere(expired))
  <2>1. IsFiniteSet(expired)
    BY <1>4, FS_Subset DEF Expired
  <2> QED BY <2>1, FS_Subset DEF ProposedHere, AcknowledgedHere
<1>9. TypeOK'
  <2>1. threats' \subseteq Threat
    BY <1>2, <1>4
  <2>2. response_proposed_count' \in Nat
    <3>1. response_proposed_count' = response_proposed_count + Cardinality(Due(recorded))
      BY DEF Tick, recorded, new
    <3>2. Cardinality(Due(recorded)) \in Nat
      BY <1>7, FS_CardinalityType
    <3> QED BY <3>1, <3>2 DEF IInv, TypeOK
  <2>3. pruned' \in [proposed : Nat, acknowledged : Nat]
    <3>1. pruned' = [proposed |-> pruned.proposed + Cardinality(ProposedHere(expired)),
                     acknowledged |-> pruned.acknowledged
                                        + Cardinality(AcknowledgedHere(expired))]
      BY DEF Tick, recorded, new
    <3>2. /\ Cardinality(ProposedHere(expired)) \in Nat
          /\ Cardinality(AcknowledgedHere(expired)) \in Nat
      BY <1>8, FS_CardinalityType
    <3>3. pruned.proposed \in Nat /\ pruned.acknowledged \in Nat
      BY DEF IInv, TypeOK
    <3> HIDE DEF expired
    <3> QED BY <3>1, <3>2, <3>3
  <2>4. actions' \subseteq ThreatIds
    <3>1. actions' = {t.id : t \in Due(recorded)}
      BY DEF Tick, recorded, new
    <3> QED BY <3>1, <1>7 DEF Threat
  <2>5. /\ resolution_count' \in Nat /\ now' \in Nat
        /\ tick_count' \in Nat /\ anomalies' \subseteq {"THREAT_OVERFLOW"}
    BY InputAssumption DEF Tick, IInv, TypeOK, Overflow
  <2> QED BY <2>1, <2>2, <2>3, <2>4, <2>5 DEF TypeOK
<1>10. IsFiniteSet(threats')
  BY <1>2, <1>4, FS_Subset
<1>11. UniqueIds'
  BY <1>2, <1>4 DEF UniqueIds
<1>12. DatesExplained' /\ FlagsStay'
  BY <1>2, <1>6 DEF DatesExplained, FlagsStay
<1>13. ASSUME NEW t \in threats
       PROVE  \/ /\ t.resolved /\ t.at # NoTime /\ t.at + Retention < now
                 /\ t.ref # NoRef \/ DatedWithoutReceipt(t.handed)
              \/ t \in threats' \/ Flagged(t) \in threats'
  <2>1. t \in Threat /\ t \in recorded
    BY <1>0, <1>3
  <2>2. PICK s \in proposed : s = t \/ s = Flagged(t)
    BY <2>1, <1>4
  <2>3. CASE s \in expired
    <3>1. s.resolved /\ s.at # NoTime /\ s.at < now - Retention
      BY <2>3 DEF Expired
    <3>2. t.resolved /\ t.at # NoTime /\ t.at < now - Retention
      BY <3>1, <2>1, <2>2, <1>5
    <3>3. t.ref # NoRef \/ DatedWithoutReceipt(t.handed)
      BY <3>2 DEF IInv, DatesExplained, DatedWithoutReceipt
    <3>4. t.at \in Int /\ now \in Nat
      BY <2>1, <3>2 DEF Threat, IInv, TypeOK
    <3> QED BY <3>2, <3>3, <3>4, ConfigAssumption
  <2>4. CASE s \notin expired
    BY <2>2, <2>4, <1>2
  <2> QED BY <2>3, <2>4
<1>15. ASSUME NEW s \in threats'
       PROVE  \/ \E t \in threats : s = t \/ s = Flagged(t)
              \/ /\ ~s.resolved /\ s.handed = Fresh /\ s.id \in {n} \X suspicious
                 /\ \A t \in threats : t.id # s.id
  <2>1. PICK r \in recorded : s = r \/ s = Flagged(r)
    BY <1>2, <1>4
  <2>2. s.resolved = r.resolved /\ s.id = r.id /\ s.handed = r.handed
    BY <2>1, <1>3, <1>5
  <2> QED BY <2>1, <2>2, <1>1, <1>3
<1> QED BY <1>9, <1>10, <1>11, <1>12, <1>13, <1>15 DEF IInv

\* A call that changes one threat, keeping its id, keeps the invariant on ids
\* and on the size of the history.
LEMMA ReplaceKeeps ==
    ASSUME NEW ts \in SUBSET Threat, IsFiniteSet(ts),
           \A s, t \in ts : s.id = t.id => s = t,
           NEW t \in ts, NEW u \in Threat, u.id = t.id
    PROVE  LET ts2 == (ts \ {t}) \cup {u}
           IN  /\ ts2 \in SUBSET Threat
               /\ IsFiniteSet(ts2)
               /\ \A r, s \in ts2 : r.id = s.id => r = s
<1>1. IsFiniteSet((ts \ {t}) \cup {u})
  BY FS_RemoveElement, FS_AddElement
<1> QED BY <1>1

\* The calls of MarkResolved and SetMitigated on one threat.
LEMMA MarkResolvedKeeps ==
    ASSUME IInv, NEW id \in ThreatIds, NEW ref \in Refs, MarkResolved(id, ref)
    PROVE  /\ IInv'
           /\ \A t \in threats : \E s \in threats' : s = t \/ s = Acknowledged(t, ref)
           /\ \A s \in threats' : s \in threats \/ (s.ref # NoRef /\ s.at # NoTime)
           /\ resolution_count' = resolution_count + 1
<1>1. PICK t \in threats :
        /\ t.id = id /\ ~t.resolved
        /\ threats' = (threats \ {t}) \cup {Acknowledged(t, ref)}
  BY DEF MarkResolved, Awaiting
<1>2. /\ Acknowledged(t, ref) \in Threat
      /\ Acknowledged(t, ref).id = t.id
      /\ Acknowledged(t, ref).ref # NoRef /\ Acknowledged(t, ref).at # NoTime
      /\ Acknowledged(t, ref).handed = t.handed
      /\ Acknowledged(t, ref).proposed = t.proposed
  <2>1. t \in Threat /\ now \in Int /\ ref # NoRef /\ now # NoTime
    BY InputAssumption DEF IInv, TypeOK
  <2> QED BY <2>1, AcknowledgedFields
<1>3. /\ threats' \in SUBSET Threat /\ IsFiniteSet(threats')
      /\ \A r, s \in threats' : r.id = s.id => r = s
  BY <1>1, <1>2, ReplaceKeeps DEF IInv, TypeOK, UniqueIds
<1>4. DatesExplained' /\ FlagsStay'
  BY <1>1, <1>2 DEF DatesExplained, FlagsStay, DatedWithoutReceipt, IInv
<1>5. TypeOK'
  BY <1>3 DEF TypeOK, IInv, MarkResolved
<1>6. \A s \in threats' : s \in threats \/ (s.ref # NoRef /\ s.at # NoTime)
  BY <1>1, <1>2
<1> QED BY <1>1, <1>3, <1>4, <1>5, <1>6 DEF IInv, UniqueIds, MarkResolved

LEMMA SetMitigatedKeeps ==
    ASSUME IInv, NEW id \in ThreatIds, NEW value \in BOOLEAN, SetMitigated(id, value)
    PROVE  /\ IInv'
           /\ \A t \in threats : \E s \in threats' :
                s = t \/ s = [t EXCEPT !.resolved = value]
<1>1. PICK t \in threats :
        /\ t.id = id
        /\ threats' = (threats \ {t}) \cup {[t EXCEPT !.resolved = value]}
  BY DEF SetMitigated
<1> DEFINE u == [t EXCEPT !.resolved = value]
<1>2. /\ u \in Threat /\ u.id = t.id /\ u.ref = t.ref /\ u.at = t.at
      /\ u.handed = t.handed /\ u.proposed = t.proposed
  <2>1. t \in Threat
    BY DEF IInv, TypeOK
  <2> QED BY <2>1 DEF Threat
<1> HIDE DEF u
<1>3. /\ threats' \in SUBSET Threat /\ IsFiniteSet(threats')
      /\ \A r, s \in threats' : r.id = s.id => r = s
  <2>1. threats' = (threats \ {t}) \cup {u}
    BY <1>1 DEF u
  <2> QED BY <1>2, <2>1, ReplaceKeeps DEF IInv, TypeOK, UniqueIds
<1>4. DatesExplained' /\ FlagsStay'
  BY <1>1, <1>2 DEF DatesExplained, FlagsStay, DatedWithoutReceipt, IInv, u
<1>5. TypeOK'
  BY <1>3 DEF TypeOK, IInv, SetMitigated
<1> QED BY <1>1, <1>3, <1>4, <1>5 DEF IInv, UniqueIds, u

LEMMA RecordThreatKeeps ==
    ASSUME IInv, NEW id \in ExternalIds, NEW level \in Levels, NEW fields \in Handed,
           RecordThreat(id, level, fields)
    PROVE  /\ IInv' /\ threats \subseteq threats'
           /\ \A s \in threats' :
                \/ s \in threats
                \/ Untouched(s) /\ s.id = id /\ \A t \in threats : t.id # s.id
<1> DEFINE new == {NewThreat(id, level, fields)}
<1>1. /\ new \in SUBSET Threat /\ IsFiniteSet(new)
      /\ \A s, t \in new : s.id = t.id => s = t
      /\ \A t \in new : Untouched(t) /\ t.id = id
  <2>1. fields \in ResponseFields /\ id \in ThreatIds /\ level \in 0..4
    BY InputAssumption DEF ThreatIds
  <2>2. /\ fields.proposed \in BOOLEAN /\ fields.resolved \in BOOLEAN
        /\ fields.ref \in {NoRef} \cup Refs /\ fields.at \in {NoTime} \cup Int
    BY <2>1 DEF ResponseFields
  <2>3. NewThreat(id, level, fields) \in Threat
    BY <2>1, <2>2 DEF NewThreat, Threat
  <2>4. IsFiniteSet(new)
    BY FS_Singleton
  <2> QED BY <2>3, <2>4 DEF NewThreat, Untouched
<1>2. threats' = Recorded(threats, new)
  BY DEF RecordThreat
<1> HIDE DEF new
<1>3. /\ threats' \in SUBSET Threat /\ IsFiniteSet(threats')
      /\ threats \subseteq threats' /\ threats' \subseteq threats \cup new
      /\ \A s \in threats' : s \in threats \/ \A t \in threats : t.id # s.id
      /\ \A s, t \in threats' : s.id = t.id => s = t
  BY <1>1, <1>2, RecordedKeeps DEF IInv, TypeOK, UniqueIds
<1>4. DatesExplained' /\ FlagsStay'
  BY <1>1, <1>3 DEF DatesExplained, FlagsStay, DatedWithoutReceipt, Untouched, IInv
<1>5. TypeOK'
  BY <1>3 DEF TypeOK, IInv, RecordThreat
<1> QED BY <1>1, <1>3, <1>4, <1>5 DEF IInv, UniqueIds

LEMMA InitIInv == Init => IInv
<1> SUFFICES ASSUME Init PROVE IInv
  OBVIOUS
<1>1. IsFiniteSet(threats)
  BY FS_EmptySet DEF Init
<1> QED BY <1>1 DEF Init, IInv, TypeOK, UniqueIds, DatesExplained, FlagsStay

LEMMA NextIInv == IInv /\ [Next]_vars => IInv'
<1> SUFFICES ASSUME IInv, [Next]_vars PROVE IInv'
  OBVIOUS
<1>1. ASSUME NEW n \in TickNums, NEW suspicious \in SUBSET Zones, Tick(n, suspicious)
      PROVE  IInv'
  BY <1>1, TickKeeps
<1>2. ASSUME NEW n \in TickNums, TickRejected(n) PROVE IInv'
  <2>1. TypeOK'
    BY <1>2, InputAssumption DEF TickRejected, IInv, TypeOK
  <2> QED BY <1>2, <2>1 DEF TickRejected, IInv, UniqueIds, DatesExplained, FlagsStay
<1>3. ASSUME NEW id \in ExternalIds, NEW level \in Levels, NEW fields \in Handed,
             RecordThreat(id, level, fields)
      PROVE  IInv'
  BY <1>3, RecordThreatKeeps
<1>4. ASSUME NEW id \in ThreatIds, NEW ref \in Refs, MarkResolved(id, ref)
      PROVE  IInv'
  BY <1>4, MarkResolvedKeeps
<1>5. ASSUME NEW id \in ThreatIds, NEW value \in AliasWrites, SetMitigated(id, value)
      PROVE  IInv'
  BY <1>5, InputAssumption, SetMitigatedKeeps
<1>6. CASE Advance
  <2>1. TypeOK'
    BY <1>6 DEF Advance, IInv, TypeOK
  <2> QED BY <1>6, <2>1 DEF Advance, IInv, UniqueIds, DatesExplained, FlagsStay
<1>7. CASE UNCHANGED vars
  BY <1>7 DEF vars, IInv, TypeOK, UniqueIds, DatesExplained, FlagsStay
<1> QED BY <1>1, <1>2, <1>3, <1>4, <1>5, <1>6, <1>7 DEF Next, Caller

LEMMA Invariance == Spec => []IInv
<1> QED BY InitIInv, NextIInv, PTL DEF Spec

-----------------------------------------------------------------------------
(* Counting threats *)

\* The threats of a finite set are counted whole or in two parts.
LEMMA CountedInParts ==
    ASSUME NEW S, NEW T, IsFiniteSet(S), T \subseteq S
    PROVE  /\ IsFiniteSet(T) /\ IsFiniteSet(S \ T)
           /\ Cardinality(T) \in Nat /\ Cardinality(S \ T) \in Nat
           /\ Cardinality(S) = Cardinality(T) + Cardinality(S \ T)
<1>1. IsFiniteSet(T) /\ IsFiniteSet(S \ T)
  BY FS_Subset
<1>2. /\ Cardinality(S) \in Nat /\ Cardinality(T) \in Nat /\ Cardinality(S \ T) \in Nat
  BY <1>1, FS_CardinalityType
<1>3. Cardinality(S \ T) = Cardinality(S) - Cardinality(S \cap T) /\ S \cap T = T
  BY FS_Difference
<1> QED BY <1>1, <1>2, <1>3

\* The sweep flags as many threats as are due, and resolves none.
LEMMA ProposedCounts ==
    ASSUME NEW ts \in SUBSET Threat, IsFiniteSet(ts),
           \A s, t \in ts : s.id = t.id => s = t,
           \A t \in ts : t.handed.proposed => t.proposed
    PROVE  /\ Cardinality(ProposedHere(Proposed(ts))) = Cardinality(ProposedHere(ts)) + Cardinality(Due(ts))
           /\ Cardinality(AcknowledgedHere(Proposed(ts))) = Cardinality(AcknowledgedHere(ts))
<1> DEFINE g == [t \in ts |-> IF t \in Due(ts) THEN Flagged(t) ELSE t]
<1>1. /\ Due(ts) \subseteq ts
      /\ \A t \in Due(ts) : ~t.proposed /\ ~t.handed.proposed
  BY DEF Due, ActiveOf
<1>2. \A t \in ts : /\ g[t] \in Proposed(ts)
                    /\ g[t].id = t.id /\ g[t].resolved = t.resolved /\ g[t].handed = t.handed
                    /\ g[t].proposed <=> t.proposed \/ t \in Due(ts)
  <2> SUFFICES ASSUME NEW t \in ts
               PROVE  /\ g[t] \in Proposed(ts) /\ g[t].id = t.id
                      /\ g[t].resolved = t.resolved /\ g[t].handed = t.handed
                      /\ g[t].proposed <=> t.proposed \/ t \in Due(ts)
    OBVIOUS
  <2>1. CASE t \in Due(ts)
    <3>1. g[t] = Flagged(t) /\ Flagged(t) \in Proposed(ts)
      BY <2>1 DEF Proposed, Flagged
    <3> QED BY <2>1, <3>1, FlaggedFields
  <2>2. CASE t \notin Due(ts)
    <3>1. g[t] = t /\ t \in Proposed(ts)
      BY <2>2 DEF Proposed
    <3> QED BY <2>2, <3>1
  <2> QED BY <2>1, <2>2
<1>3. \A s \in Proposed(ts) : \E t \in ts : s = g[t]
  BY <1>1 DEF Proposed, Flagged
<1>4. \A x, y \in ts : g[x] = g[y] => x = y
  BY <1>2
<1>5. g = [t \in ts |-> g[t]]
  OBVIOUS
<1> HIDE DEF g
<1>6. ASSUME NEW S \in SUBSET ts
      PROVE  Cardinality({g[t] : t \in S}) = Cardinality(S)
  <2> DEFINE f == [t \in S |-> g[t]]
  <2>1. f = [t \in S |-> f[t]] /\ \A t \in S : f[t] = g[t]
    OBVIOUS
  <2>2. {f[t] : t \in S} = {g[t] : t \in S}
    BY <2>1
  <2>3. \A x, y \in S : f[x] = f[y] => x = y
    BY <2>1, <1>4
  <2>4. IsFiniteSet(S)
    BY FS_Subset
  <2> HIDE DEF f
  <2>5. Cardinality({f[t] : t \in S}) = Cardinality(S)
    BY <2>1, <2>3, <2>4, FiniteImage
  <2> QED BY <2>2, <2>5
<1>7. AcknowledgedHere(Proposed(ts)) = {g[t] : t \in AcknowledgedHere(ts)}
  BY <1>2, <1>3 DEF AcknowledgedHere
<1>8. ProposedHere(Proposed(ts)) = {g[t] : t \in ProposedHere(ts) \cup Due(ts)}
  BY <1>1, <1>2, <1>3 DEF ProposedHere
<1>9. AcknowledgedHere(ts) \in SUBSET ts /\ ProposedHere(ts) \cup Due(ts) \in SUBSET ts
  BY <1>1 DEF AcknowledgedHere, ProposedHere
<1>10. Cardinality(ProposedHere(ts) \cup Due(ts)) = Cardinality(ProposedHere(ts)) + Cardinality(Due(ts))
  <2>1. (ProposedHere(ts) \cup Due(ts)) \ ProposedHere(ts) = Due(ts)
    BY <1>1 DEF ProposedHere
  <2>2. IsFiniteSet(ProposedHere(ts) \cup Due(ts))
    BY <1>9, FS_Subset
  <2>3. ProposedHere(ts) \subseteq ProposedHere(ts) \cup Due(ts)
    OBVIOUS
  <2> QED BY <2>1, <2>2, <2>3, CountedInParts
<1> QED BY <1>6, <1>7, <1>8, <1>9, <1>10

\* A tick moves flags and receipts from the history to what was pruned, and
\* counts the proposals it makes.
LEMMA TickCounts ==
    ASSUME IInv, NEW n \in TickNums, NEW suspicious \in SUBSET Zones,
           Tick(n, suspicious)
    PROVE  /\ (pruned.proposed + Cardinality(ProposedHere(threats)))' - response_proposed_count'
                = pruned.proposed + Cardinality(ProposedHere(threats)) - response_proposed_count
           /\ (pruned.acknowledged + Cardinality(AcknowledgedHere(threats)))'
                = pruned.acknowledged + Cardinality(AcknowledgedHere(threats))
<1> DEFINE new == {NewThreat(<<n, z>>, HIGH, Fresh) : z \in suspicious}
           recorded == Recorded(threats, new)
           proposed == Proposed(recorded)
           expired == Expired(proposed)
<1>0. /\ threats \in SUBSET Threat /\ IsFiniteSet(threats)
      /\ \A s, t \in threats : s.id = t.id => s = t
  BY DEF IInv, TypeOK, UniqueIds
<1>1. /\ new \in SUBSET Threat /\ IsFiniteSet(new)
      /\ \A s, t \in new : s.id = t.id => s = t
      /\ \A t \in new : /\ ~t.resolved /\ ~t.proposed /\ t.handed = Fresh
                        /\ Untouched(t) /\ t.id \in {n} \X suspicious
  BY DetectedType
<1>2. /\ threats' = proposed \ expired
      /\ response_proposed_count' = response_proposed_count + Cardinality(Due(recorded))
      /\ pruned' = [proposed |-> pruned.proposed + Cardinality(ProposedHere(expired)),
                    acknowledged |-> pruned.acknowledged
                                       + Cardinality(AcknowledgedHere(expired))]
  BY DEF Tick
<1> HIDE DEF new
<1>3. /\ recorded \in SUBSET Threat /\ IsFiniteSet(recorded)
      /\ threats \subseteq recorded /\ recorded \subseteq threats \cup new
      /\ \A s, t \in recorded : s.id = t.id => s = t
      /\ \A t \in recorded : t.handed.proposed => t.proposed
  <2>1. \A t \in threats \cup new : t.handed.proposed => t.proposed
    BY <1>1 DEF IInv, FlagsStay, Untouched
  <2> QED BY <1>0, <1>1, <2>1, RecordedKeeps
<1> HIDE DEF recorded
<1>4. proposed \in SUBSET Threat /\ IsFiniteSet(proposed)
  BY <1>3, ProposedKeeps
<1>5. /\ Cardinality(ProposedHere(proposed)) = Cardinality(ProposedHere(recorded)) + Cardinality(Due(recorded))
      /\ Cardinality(AcknowledgedHere(proposed)) = Cardinality(AcknowledgedHere(recorded))
  BY <1>3, ProposedCounts
<1>6. ProposedHere(recorded) = ProposedHere(threats) /\ AcknowledgedHere(recorded) = AcknowledgedHere(threats)
  BY <1>1, <1>3 DEF ProposedHere, AcknowledgedHere
<1>7. IsFiniteSet(Due(recorded)) /\ IsFiniteSet(ProposedHere(recorded)) /\ IsFiniteSet(AcknowledgedHere(recorded))
  BY <1>3, FS_Subset DEF Due, ActiveOf, ProposedHere, AcknowledgedHere
<1>8. /\ Cardinality(Due(recorded)) \in Nat /\ Cardinality(ProposedHere(threats)) \in Nat
      /\ Cardinality(AcknowledgedHere(threats)) \in Nat
  BY <1>6, <1>7, FS_CardinalityType
<1> HIDE DEF proposed
<1>9. expired \subseteq proposed
  BY DEF Expired
<1> HIDE DEF expired
<1>10. /\ ProposedHere(proposed) \ ProposedHere(expired) = ProposedHere(proposed \ expired)
       /\ AcknowledgedHere(proposed) \ AcknowledgedHere(expired) = AcknowledgedHere(proposed \ expired)
       /\ ProposedHere(expired) \subseteq ProposedHere(proposed) /\ ProposedHere(proposed) \subseteq proposed
       /\ AcknowledgedHere(expired) \subseteq AcknowledgedHere(proposed) /\ AcknowledgedHere(proposed) \subseteq proposed
  BY <1>9 DEF ProposedHere, AcknowledgedHere
<1>11. IsFiniteSet(ProposedHere(proposed)) /\ IsFiniteSet(AcknowledgedHere(proposed))
  BY <1>4, <1>10, FS_Subset
<1>12. /\ Cardinality(ProposedHere(proposed))
            = Cardinality(ProposedHere(expired)) + Cardinality(ProposedHere(proposed \ expired))
       /\ Cardinality(ProposedHere(expired)) \in Nat /\ Cardinality(ProposedHere(proposed \ expired)) \in Nat
  <2>1. /\ Cardinality(ProposedHere(proposed))
             = Cardinality(ProposedHere(expired)) + Cardinality(ProposedHere(proposed) \ ProposedHere(expired))
        /\ Cardinality(ProposedHere(expired)) \in Nat
        /\ Cardinality(ProposedHere(proposed) \ ProposedHere(expired)) \in Nat
    BY <1>10, <1>11, CountedInParts
  <2> QED BY <1>10, <2>1
<1>13. /\ Cardinality(AcknowledgedHere(proposed))
            = Cardinality(AcknowledgedHere(expired)) + Cardinality(AcknowledgedHere(proposed \ expired))
       /\ Cardinality(AcknowledgedHere(expired)) \in Nat /\ Cardinality(AcknowledgedHere(proposed \ expired)) \in Nat
  <2>1. /\ Cardinality(AcknowledgedHere(proposed))
             = Cardinality(AcknowledgedHere(expired)) + Cardinality(AcknowledgedHere(proposed) \ AcknowledgedHere(expired))
        /\ Cardinality(AcknowledgedHere(expired)) \in Nat
        /\ Cardinality(AcknowledgedHere(proposed) \ AcknowledgedHere(expired)) \in Nat
    BY <1>10, <1>11, CountedInParts
  <2> QED BY <1>10, <2>1
<1>14. /\ pruned'.proposed = pruned.proposed + Cardinality(ProposedHere(expired))
       /\ pruned'.acknowledged = pruned.acknowledged + Cardinality(AcknowledgedHere(expired))
  BY <1>2
<1>15. /\ pruned.proposed \in Nat /\ pruned.acknowledged \in Nat
       /\ response_proposed_count \in Nat
  BY DEF IInv, TypeOK
<1>16. /\ ProposedHere(threats)' = ProposedHere(proposed \ expired)
       /\ AcknowledgedHere(threats)' = AcknowledgedHere(proposed \ expired)
  BY <1>2 DEF ProposedHere, AcknowledgedHere
<1> QED BY <1>2, <1>5, <1>6, <1>8, <1>12, <1>13, <1>14, <1>15, <1>16

\* Replacing a threat by one that differs from it in other ways changes no count
\* of flags; one that is resolved here adds one.
LEMMA ReplacedCounts ==
    ASSUME NEW ts \in SUBSET Threat, IsFiniteSet(ts),
           \A s, t \in ts : s.id = t.id => s = t,
           NEW t \in ts, NEW u \in Threat, u.id = t.id,
           u.proposed = t.proposed, u.handed = t.handed
    PROVE  LET ts2 == (ts \ {t}) \cup {u}
           IN  /\ Cardinality(ProposedHere(ts2)) = Cardinality(ProposedHere(ts))
               /\ ~t.resolved /\ u.resolved /\ ~u.handed.resolved =>
                    Cardinality(AcknowledgedHere(ts2)) = Cardinality(AcknowledgedHere(ts)) + 1
<1> DEFINE ts2 == (ts \ {t}) \cup {u}
<1>1. u \notin ts \ {t}
  OBVIOUS
<1>2. IsFiniteSet(ProposedHere(ts)) /\ IsFiniteSet(AcknowledgedHere(ts))
  BY FS_Subset DEF ProposedHere, AcknowledgedHere
<1>3. Cardinality(ProposedHere(ts)) \in Nat /\ Cardinality(AcknowledgedHere(ts)) \in Nat
  BY <1>2, FS_CardinalityType
<1>4. Cardinality(ProposedHere(ts2)) = Cardinality(ProposedHere(ts))
  <2>1. CASE ~(t.proposed /\ ~t.handed.proposed)
    <3>1. ProposedHere(ts2) = ProposedHere(ts)
      BY <2>1 DEF ProposedHere
    <3> QED BY <3>1
  <2>2. CASE t.proposed /\ ~t.handed.proposed
    <3> DEFINE rest == ProposedHere(ts) \ {t}
    <3>1. ProposedHere(ts2) = rest \cup {u} /\ t \in ProposedHere(ts) /\ u \notin rest
      BY <1>1, <2>2 DEF ProposedHere
    <3>2. IsFiniteSet(rest) /\ Cardinality(rest) = Cardinality(ProposedHere(ts)) - 1
      BY <1>2, <3>1, FS_RemoveElement
    <3> HIDE DEF rest
    <3>3. Cardinality(rest \cup {u}) = Cardinality(rest) + 1
      BY <3>1, <3>2, FS_AddElement
    <3>4. Cardinality(rest \cup {u}) = Cardinality(ProposedHere(ts))
      BY <1>3, <3>2, <3>3
    <3> QED BY <3>1, <3>4
  <2> QED BY <2>1, <2>2
<1>5. ASSUME ~t.resolved, u.resolved, ~u.handed.resolved
      PROVE  Cardinality(AcknowledgedHere(ts2)) = Cardinality(AcknowledgedHere(ts)) + 1
  <2>1. AcknowledgedHere(ts2) = AcknowledgedHere(ts) \cup {u} /\ u \notin AcknowledgedHere(ts)
    BY <1>1, <1>5 DEF AcknowledgedHere
  <2>2. Cardinality(AcknowledgedHere(ts) \cup {u}) = Cardinality(AcknowledgedHere(ts)) + 1
    BY <1>2, <2>1, FS_AddElement
  <2> QED BY <2>1, <2>2
<1> QED BY <1>4, <1>5

\* A threat changes no count when it is recorded, whatever it came in with.
LEMMA RecordedCounts ==
    ASSUME IInv, NEW id \in ExternalIds, NEW level \in Levels, NEW fields \in Handed,
           RecordThreat(id, level, fields)
    PROVE  /\ ProposedHere(threats)' = ProposedHere(threats)
           /\ AcknowledgedHere(threats)' = AcknowledgedHere(threats)
<1>1. \A s \in threats' : s \in threats \/ Untouched(s)
  BY RecordThreatKeeps
<1>2. threats \subseteq threats'
  BY RecordThreatKeeps
<1> QED BY <1>1, <1>2 DEF ProposedHere, AcknowledgedHere, Untouched

-----------------------------------------------------------------------------
(* Theorems *)

\* Every field keeps its type, for every configuration the constructor accepts.
THEOREM TypeCorrect == Spec => []TypeOK
<1>1. IInv => TypeOK
  BY DEF IInv
<1> QED BY <1>1, Invariance, PTL

\* The history never holds two threats with one id.
THEOREM IdsAreUnique == Spec => []UniqueIds
<1>1. IInv => UniqueIds
  BY DEF IInv
<1> QED BY <1>1, Invariance, PTL

\* No threat is forgotten before its resolution is older than the retention, nor
\* without a receipt, unless it was handed over with a date and no receipt.
THEOREM ForgettingIsSafe == Spec => ForgottenOnlyAfterRetention
<1> DEFINE Kept(t) == \/ /\ t.resolved /\ t.at # NoTime /\ t.at + Retention < now
                         /\ t.ref # NoRef \/ DatedWithoutReceipt(t.handed)
                      \/ \E s \in threats' : /\ s.id = t.id /\ s.level = t.level
                                             /\ t.proposed => s.proposed
                                             /\ t.ref # NoRef => s.ref # NoRef
           A == \A t \in threats : Kept(t)
<1>1. IInv /\ [Next]_vars => [A]_vars
  <2> SUFFICES ASSUME IInv, Next, NEW t \in threats PROVE Kept(t)
    OBVIOUS
  <2>0. /\ t \in Threat
        /\ Flagged(t).id = t.id /\ Flagged(t).level = t.level
        /\ Flagged(t).proposed /\ Flagged(t).ref = t.ref
    BY DEF IInv, TypeOK, Flagged, Threat
  <2>1. ASSUME NEW n \in TickNums, NEW suspicious \in SUBSET Zones, Tick(n, suspicious)
        PROVE  Kept(t)
    BY <2>0, <2>1, TickKeeps
  <2>2. ASSUME threats \subseteq threats' PROVE Kept(t)
    BY <2>2
  <2>3. ASSUME NEW id \in ThreatIds, NEW ref \in Refs, MarkResolved(id, ref)
        PROVE  Kept(t)
    <3>1. PICK s \in threats' : s = t \/ s = Acknowledged(t, ref)
      BY <2>3, MarkResolvedKeeps
    <3> QED BY <2>0, <3>1, InputAssumption DEF Acknowledged, Threat
  <2>4. ASSUME NEW id \in ThreatIds, NEW value \in AliasWrites, SetMitigated(id, value)
        PROVE  Kept(t)
    <3>1. PICK s \in threats' : s = t \/ s = [t EXCEPT !.resolved = value]
      BY <2>4, InputAssumption, SetMitigatedKeeps
    <3> QED BY <2>0, <3>1 DEF Threat
  <2>5. ASSUME NEW id \in ExternalIds, NEW level \in Levels, NEW fields \in Handed,
             RecordThreat(id, level, fields)
        PROVE  Kept(t)
    BY <2>2, <2>5, RecordThreatKeeps
  <2> QED BY <2>1, <2>2, <2>3, <2>4, <2>5 DEF Next, Caller, TickRejected, Advance
<1> QED BY <1>1, Invariance, PTL DEF Spec, ForgottenOnlyAfterRetention

\* Where no caller writes the mitigated alias, every threat resolved since it was
\* recorded carries the receipt that resolved it, and its date.
THEOREM ResolutionsCarryReceipts ==
    ASSUME AliasWrites = {}
    PROVE  Spec => []ResolvedHasReceipt
<1> DEFINE Receipted(s) == s.resolved /\ ~s.handed.resolved => s.ref # NoRef /\ s.at # NoTime
<1>0. ResolvedHasReceipt <=> \A t \in threats : Receipted(t)
  BY DEF ResolvedHasReceipt, AcknowledgedHere
<1>1. Init => ResolvedHasReceipt
  BY <1>0 DEF Init
<1>2. IInv /\ ResolvedHasReceipt /\ [Next]_vars => ResolvedHasReceipt'
  <2> SUFFICES ASSUME IInv, ResolvedHasReceipt, [Next]_vars, NEW s \in threats'
               PROVE  Receipted(s)
    BY DEF ResolvedHasReceipt, AcknowledgedHere
  <2>0. \A t \in threats :
          /\ Receipted(t)
          /\ Flagged(t).resolved = t.resolved /\ Flagged(t).ref = t.ref
          /\ Flagged(t).at = t.at /\ Flagged(t).handed = t.handed
    BY <1>0 DEF IInv, TypeOK, Flagged, Threat
  <2>1. ASSUME NEW n \in TickNums, NEW suspicious \in SUBSET Zones, Tick(n, suspicious)
        PROVE  Receipted(s)
    BY <2>0, <2>1, TickKeeps
  <2>2. ASSUME threats' = threats PROVE Receipted(s)
    BY <2>0, <2>2
  <2>3. ASSUME NEW id \in ThreatIds, NEW ref \in Refs, MarkResolved(id, ref)
        PROVE  Receipted(s)
    BY <2>0, <2>3, MarkResolvedKeeps
  <2>4. ASSUME NEW id \in ExternalIds, NEW level \in Levels, NEW fields \in Handed,
               RecordThreat(id, level, fields)
        PROVE  Receipted(s)
    BY <2>0, <2>4, RecordThreatKeeps DEF Untouched
  <2> QED BY <2>1, <2>2, <2>3, <2>4 DEF Next, Caller, TickRejected, Advance, vars
<1> QED BY <1>1, <1>2, Invariance, PTL DEF Spec

\* Every proposal is counted once, for as long as its threat is remembered and
\* after, whatever is resolved, reopened or swept again.
THEOREM ProposalsCountOnce == Spec => []ProposalAccounting
<1> DEFINE Counted == response_proposed_count = pruned.proposed + Cardinality(ProposedHere(threats))
<1>0. ProposalAccounting <=> Counted
  BY DEF ProposalAccounting, ProposedHere
<1>1. Init => Counted
  BY FS_EmptySet DEF Init, ProposedHere
<1>2. IInv /\ IInv' /\ Counted /\ [Next]_vars => Counted'
  <2> SUFFICES ASSUME IInv, IInv', Counted, [Next]_vars PROVE Counted'
    OBVIOUS
  <2>0. /\ IsFiniteSet(threats) /\ threats \in SUBSET Threat
        /\ \A s, t \in threats : s.id = t.id => s = t
        /\ response_proposed_count \in Nat /\ response_proposed_count' \in Nat
        /\ pruned.proposed \in Nat /\ pruned'.proposed \in Nat
    BY DEF IInv, TypeOK, UniqueIds
  <2>1. Cardinality(ProposedHere(threats)) \in Nat /\ Cardinality(ProposedHere(threats)') \in Nat
    <3>1. IsFiniteSet(ProposedHere(threats)) /\ IsFiniteSet(ProposedHere(threats)')
      BY FS_Subset DEF IInv, ProposedHere
    <3> QED BY <3>1, FS_CardinalityType
  <2>2. ASSUME NEW n \in TickNums, NEW suspicious \in SUBSET Zones, Tick(n, suspicious)
        PROVE  Counted'
    <3>1. pruned'.proposed + Cardinality(ProposedHere(threats)') - response_proposed_count'
            = pruned.proposed + Cardinality(ProposedHere(threats)) - response_proposed_count
      BY <2>0, <2>1, <2>2, TickCounts
    <3> QED BY <2>0, <2>1, <3>1
  <2>3. ASSUME NEW id \in ThreatIds, NEW ref \in Refs, MarkResolved(id, ref)
        PROVE  Counted'
    <3>1. PICK t \in Awaiting(id) : threats' = (threats \ {t}) \cup {Acknowledged(t, ref)}
      BY <2>3 DEF MarkResolved
    <3>2. t \in threats /\ t \in Threat
      BY <2>0 DEF Awaiting
    <3>3. /\ Acknowledged(t, ref) \in Threat /\ Acknowledged(t, ref).id = t.id
          /\ Acknowledged(t, ref).proposed = t.proposed
          /\ Acknowledged(t, ref).handed = t.handed
      <4>1. now \in Int
        BY DEF IInv, TypeOK
      <4> QED BY <3>2, <4>1, AcknowledgedFields
    <3>4. Cardinality(ProposedHere(threats)') = Cardinality(ProposedHere(threats))
      <4>1. Cardinality(ProposedHere((threats \ {t}) \cup {Acknowledged(t, ref)}))
              = Cardinality(ProposedHere(threats))
        BY <2>0, <3>2, <3>3, ReplacedCounts
      <4>2. ProposedHere(threats)' = ProposedHere((threats \ {t}) \cup {Acknowledged(t, ref)})
        BY <3>1 DEF ProposedHere
      <4> QED BY <4>1, <4>2
    <3> QED BY <2>3, <3>4 DEF MarkResolved
  <2>4. ASSUME NEW id \in ThreatIds, NEW value \in AliasWrites, SetMitigated(id, value)
        PROVE  Counted'
    <3>1. PICK t \in threats : threats' = (threats \ {t}) \cup {[t EXCEPT !.resolved = value]}
      BY <2>4 DEF SetMitigated
    <3> DEFINE u == [t EXCEPT !.resolved = value]
    <3>2. u \in Threat /\ u.id = t.id /\ u.proposed = t.proposed /\ u.handed = t.handed
      BY <2>0, InputAssumption DEF Threat
    <3> HIDE DEF u
    <3>3. threats' = (threats \ {t}) \cup {u}
      BY <3>1 DEF u
    <3>4. Cardinality(ProposedHere(threats)') = Cardinality(ProposedHere(threats))
      <4>1. Cardinality(ProposedHere((threats \ {t}) \cup {u})) = Cardinality(ProposedHere(threats))
        BY <2>0, <3>2, ReplacedCounts
      <4>2. ProposedHere(threats)' = ProposedHere((threats \ {t}) \cup {u})
        BY <3>3 DEF ProposedHere
      <4> QED BY <4>1, <4>2
    <3> QED BY <2>4, <3>4 DEF SetMitigated
  <2>5. ASSUME NEW id \in ExternalIds, NEW level \in Levels, NEW fields \in Handed,
             RecordThreat(id, level, fields)
        PROVE  Counted'
    BY <2>5, RecordedCounts DEF RecordThreat
  <2>6. ASSUME UNCHANGED <<threats, response_proposed_count, pruned>> PROVE Counted'
    BY <2>6 DEF ProposedHere
  <2> QED BY <2>2, <2>3, <2>4, <2>5, <2>6 DEF Next, Caller, TickRejected, Advance, vars
<1> QED BY <1>0, <1>1, <1>2, Invariance, PTL DEF Spec

\* Where no caller writes the mitigated alias, every receipt the engine ever
\* accepted is that of one threat resolved here, in the history or pruned; a
\* threat that came in resolved stays so, and takes no receipt.
THEOREM ReceiptsCountOnce ==
    ASSUME AliasWrites = {}
    PROVE  Spec => []ResolutionAccounting
<1> DEFINE Counted == /\ resolution_count = pruned.acknowledged + Cardinality(AcknowledgedHere(threats))
                      /\ \A t \in threats : t.handed.resolved => t.resolved
<1>0. Counted => ResolutionAccounting
  BY DEF ResolutionAccounting, AcknowledgedHere
<1>1. Init => Counted
  BY FS_EmptySet DEF Init, AcknowledgedHere
<1>2. IInv /\ IInv' /\ Counted /\ [Next]_vars => Counted'
  <2> SUFFICES ASSUME IInv, IInv', Counted, [Next]_vars PROVE Counted'
    OBVIOUS
  <2>0. /\ IsFiniteSet(threats) /\ threats \in SUBSET Threat
        /\ \A s, t \in threats : s.id = t.id => s = t
        /\ resolution_count \in Nat /\ pruned.acknowledged \in Nat /\ pruned'.acknowledged \in Nat
    BY DEF IInv, TypeOK, UniqueIds
  <2>1. Cardinality(AcknowledgedHere(threats)) \in Nat /\ Cardinality(AcknowledgedHere(threats)') \in Nat
    <3>1. IsFiniteSet(AcknowledgedHere(threats)) /\ IsFiniteSet(AcknowledgedHere(threats)')
      BY FS_Subset DEF IInv, AcknowledgedHere
    <3> QED BY <3>1, FS_CardinalityType
  <2>2. ASSUME NEW n \in TickNums, NEW suspicious \in SUBSET Zones, Tick(n, suspicious)
        PROVE  Counted'
    <3>1. resolution_count' = resolution_count
      BY <2>2 DEF Tick
    <3>2. resolution_count' = pruned'.acknowledged + Cardinality(AcknowledgedHere(threats)')
      BY <2>0, <2>1, <2>2, <3>1, TickCounts
    <3>3. ASSUME NEW s \in threats', s.handed.resolved PROVE s.resolved
      <4>1. \A t \in threats : /\ Flagged(t).handed = t.handed
                               /\ Flagged(t).resolved = t.resolved
        BY <2>0 DEF Flagged, Threat
      <4>2. \/ \E t \in threats : s = t \/ s = Flagged(t)
            \/ s.handed = Fresh
        BY <2>2, TickKeeps
      <4>3. ~Fresh.resolved
        BY DEF Fresh
      <4> QED BY <3>3, <4>1, <4>2, <4>3
    <3> QED BY <3>2, <3>3
  <2>3. ASSUME NEW id \in ThreatIds, NEW ref \in Refs, MarkResolved(id, ref)
        PROVE  Counted'
    <3>1. PICK t \in Awaiting(id) : threats' = (threats \ {t}) \cup {Acknowledged(t, ref)}
      BY <2>3 DEF MarkResolved
    <3>2. t \in threats /\ t \in Threat /\ ~t.resolved /\ ~t.handed.resolved
      BY <2>0 DEF Awaiting
    <3>3. /\ Acknowledged(t, ref) \in Threat /\ Acknowledged(t, ref).id = t.id
          /\ Acknowledged(t, ref).proposed = t.proposed
          /\ Acknowledged(t, ref).handed = t.handed /\ Acknowledged(t, ref).resolved
      <4>1. now \in Int
        BY DEF IInv, TypeOK
      <4> QED BY <3>2, <4>1, AcknowledgedFields
    <3>4. Cardinality(AcknowledgedHere(threats)') = Cardinality(AcknowledgedHere(threats)) + 1
      BY <2>0, <3>1, <3>2, <3>3, ReplacedCounts DEF AcknowledgedHere
    <3>5. \A s \in threats' : s.handed.resolved => s.resolved
      BY <3>1, <3>3
    <3>6. resolution_count' = resolution_count + 1 /\ pruned' = pruned
      BY <2>3 DEF MarkResolved
    <3> QED BY <2>0, <2>1, <3>4, <3>5, <3>6
  <2>4. ASSUME NEW id \in ExternalIds, NEW level \in Levels, NEW fields \in Handed,
             RecordThreat(id, level, fields)
        PROVE  Counted'
    <3>1. \A s \in threats' : s \in threats \/ Untouched(s)
      BY <2>4, RecordThreatKeeps
    <3> QED BY <2>4, <3>1, RecordedCounts DEF RecordThreat, Untouched
  <2>5. ASSUME UNCHANGED <<threats, resolution_count, pruned>> PROVE Counted'
    BY <2>5 DEF AcknowledgedHere
  <2> QED BY <2>2, <2>3, <2>4, <2>5 DEF Next, Caller, TickRejected, Advance, vars
<1> QED BY <1>0, <1>1, <1>2, Invariance, PTL DEF Spec

\* The highest level of the active threats of a history.
LevelOf(ts) ==
    IF ActiveOf(ts) = {} THEN 0
    ELSE CHOOSE l \in 0..4 : /\ \E t \in ActiveOf(ts) : t.level = l
                             /\ \A t \in ActiveOf(ts) : t.level <= l

LEMMA LevelIsHighest ==
    ASSUME NEW ts \in SUBSET Threat
    PROVE  /\ LevelOf(ts) \in 0..4
           /\ \A t \in ActiveOf(ts) : t.level <= LevelOf(ts)
           /\ ActiveOf(ts) # {} => \E t \in ActiveOf(ts) : t.level = LevelOf(ts)
<1> DEFINE Highest(l) == /\ \E t \in ActiveOf(ts) : t.level = l
                         /\ \A t \in ActiveOf(ts) : t.level <= l
           Reached(l) == \E t \in ActiveOf(ts) : t.level = l
<1>1. \A t \in ActiveOf(ts) : t.level \in 0..4
  BY DEF ActiveOf, Threat
<1>2. CASE ActiveOf(ts) = {}
  BY <1>2 DEF LevelOf
<1>3. CASE ActiveOf(ts) # {}
  <2>1. \E l \in 0..4 : Highest(l)
    <3>1. CASE Reached(4)
      BY <1>1, <3>1
    <3>2. CASE ~Reached(4) /\ Reached(3)
      BY <1>1, <3>2
    <3>3. CASE ~Reached(4) /\ ~Reached(3) /\ Reached(2)
      BY <1>1, <3>3
    <3>4. CASE ~Reached(4) /\ ~Reached(3) /\ ~Reached(2) /\ Reached(1)
      BY <1>1, <3>4
    <3>5. CASE ~Reached(4) /\ ~Reached(3) /\ ~Reached(2) /\ ~Reached(1)
      <4>1. \A t \in ActiveOf(ts) : t.level = 0
        BY <1>1, <3>5
      <4> QED BY <1>3, <4>1
    <3> QED BY <3>1, <3>2, <3>3, <3>4, <3>5
  <2>2. LevelOf(ts) = CHOOSE l \in 0..4 : Highest(l)
    BY <1>3 DEF LevelOf
  <2>3. LevelOf(ts) \in 0..4 /\ Highest(LevelOf(ts))
    BY <2>1, <2>2
  <2> QED BY <2>3
<1> QED BY <1>2, <1>3

\* A history whose active threats all go on is at no lower level.
LEMMA LevelStays ==
    ASSUME NEW ts \in SUBSET Threat, NEW ts2 \in SUBSET Threat,
           \A t \in ActiveOf(ts) : \E s \in ActiveOf(ts2) : s.level = t.level
    PROVE  LevelOf(ts) <= LevelOf(ts2)
<1>1. CASE ActiveOf(ts) = {}
  <2>1. LevelOf(ts) = 0
    BY <1>1 DEF LevelOf
  <2> QED BY <2>1, LevelIsHighest
<1>2. CASE ActiveOf(ts) # {}
  <2>1. PICK t \in ActiveOf(ts) : t.level = LevelOf(ts)
    BY <1>2, LevelIsHighest
  <2>2. PICK s \in ActiveOf(ts2) : s.level = t.level
    OBVIOUS
  <2> QED BY <2>1, <2>2, LevelIsHighest
<1> QED BY <1>1, <1>2

\* Where no caller writes the mitigated alias, only an accepted receipt lowers
\* the threat level: no snapshot, proposal, pruning or refused batch does.
THEOREM OnlyReceiptsLower ==
    ASSUME AliasWrites = {}
    PROVE  Spec => LevelDropsOnlyByReceipt
<1> DEFINE A == CurrentThreatLevel' < CurrentThreatLevel
                  => resolution_count' = resolution_count + 1
<1>1. IInv /\ IInv' /\ [Next]_vars => [A]_vars
  <2> SUFFICES ASSUME IInv, IInv', Next, resolution_count' # resolution_count + 1
               PROVE  ~(CurrentThreatLevel' < CurrentThreatLevel)
    OBVIOUS
  <2>0. threats \in SUBSET Threat /\ threats' \in SUBSET Threat
    BY DEF IInv, TypeOK
  <2>1. CurrentThreatLevel = LevelOf(threats)
    BY DEF CurrentThreatLevel, LevelOf, ActiveThreats
  <2>2. CurrentThreatLevel' = LevelOf(threats')
    BY DEF CurrentThreatLevel, LevelOf, ActiveThreats, ActiveOf
  <2>3. ASSUME NEW t \in ActiveOf(threats)
        PROVE  \E s \in ActiveOf(threats') : s.level = t.level
    <3>0. t \in threats /\ ~t.resolved /\ t \in Threat
      BY <2>0 DEF ActiveOf
    <3>1. ASSUME NEW n \in TickNums, NEW suspicious \in SUBSET Zones, Tick(n, suspicious)
          PROVE  t \in threats' \/ Flagged(t) \in threats'
      BY <3>0, <3>1, TickKeeps
    <3>2. Flagged(t).level = t.level /\ Flagged(t).resolved = t.resolved
      BY <3>0 DEF Flagged, Threat
    <3>3. ASSUME NEW id \in ExternalIds, NEW level \in Levels, NEW fields \in Handed,
             RecordThreat(id, level, fields)
          PROVE  t \in threats'
      BY <3>0, <3>3, RecordThreatKeeps
    <3>4. ASSUME NEW id \in ThreatIds, NEW ref \in Refs, MarkResolved(id, ref)
          PROVE  FALSE
      BY <3>4 DEF MarkResolved
    <3>5. t \in threats' \/ Flagged(t) \in threats'
      BY <3>0, <3>1, <3>3, <3>4 DEF Next, Caller, TickRejected, Advance
    <3> QED BY <3>0, <3>2, <3>5 DEF ActiveOf
  <2>4. LevelOf(threats) <= LevelOf(threats')
    BY <2>0, <2>3, LevelStays
  <2>5. LevelOf(threats) \in 0..4 /\ LevelOf(threats') \in 0..4
    BY <2>0, LevelIsHighest
  <2> QED BY <2>1, <2>2, <2>4, <2>5
<1> QED BY <1>1, Invariance, PTL DEF Spec, LevelDropsOnlyByReceipt


-----------------------------------------------------------------------------
(* The adapter drives an engine *)

\* Every step of the adapter is a step of the engine.
LEMMA AdapterStepsEngine == [AdapterNext]_all_vars => [Next]_vars
<1> SUFFICES ASSUME [AdapterNext]_all_vars PROVE [Next]_vars
  OBVIOUS
<1>1. ASSUME NEW request \in ExplicitTicks \cup {AutoTick}, NEW patterns \in Batches,
             Analyze(request, patterns)
      PROVE  Next
  <2>1. SuspiciousZones(patterns) \in SUBSET Zones
    BY AdapterAssumption DEF SuspiciousZones, Pattern
  <2>2. EffectiveTick(request) \in TickNums
        /\ Tick(EffectiveTick(request), SuspiciousZones(patterns))
    BY <1>1 DEF Analyze
  <2> QED BY <2>1, <2>2 DEF Next
<1>2. ASSUME NEW request \in ExplicitTicks \cup {AutoTick}, AnalyzeRejected(request)
      PROVE  UNCHANGED vars
  BY <1>2 DEF AnalyzeRejected
<1>3. CASE Caller /\ UNCHANGED adapter_vars
  BY <1>3 DEF Next
<1>4. CASE UNCHANGED all_vars
  BY <1>4 DEF all_vars
<1> QED BY <1>1, <1>2, <1>3, <1>4 DEF AdapterNext

\* The engine under the adapter is an engine.
THEOREM AdapterDrivesEngine == AdapterSpec => Spec
<1>1. AdapterInit => Init
  BY DEF AdapterInit
<1> QED BY <1>1, AdapterStepsEngine, PTL DEF AdapterSpec, Spec

LEMMA EngineInvariance == AdapterSpec => []IInv
<1> QED BY AdapterDrivesEngine, Invariance, PTL

-----------------------------------------------------------------------------
(* The receipt *)

\* The receipt shown is of the engine's last tick, whatever batches were refused
\* in between and whatever numbers they consumed.
THEOREM ReceiptFollowsEngine == AdapterSpec => []ReceiptIsOfLastTick
<1>1. AdapterInit => ReceiptIsOfLastTick
  BY DEF AdapterInit, Init, ReceiptIsOfLastTick
<1>2. IInv' /\ ReceiptIsOfLastTick /\ [AdapterNext]_all_vars => ReceiptIsOfLastTick'
  <2> SUFFICES ASSUME IInv', ReceiptIsOfLastTick, [AdapterNext]_all_vars
               PROVE  ReceiptIsOfLastTick'
    OBVIOUS
  <2>1. ASSUME NEW request \in ExplicitTicks \cup {AutoTick}, NEW patterns \in Batches,
               Analyze(request, patterns)
        PROVE  ReceiptIsOfLastTick'
    <3> DEFINE n == EffectiveTick(request)
               zones == SuspiciousZones(patterns)
    <3>1. /\ n \in TickNums /\ tick_count' = n /\ n \in used'
          /\ last_analysis' = [tick |-> n, zones |-> zones, level |-> CurrentThreatLevel']
      BY <2>1 DEF Analyze, Tick, Receipt
    <3>2. zones \in SUBSET Zones
      BY AdapterAssumption DEF SuspiciousZones, Pattern
    <3>3. CurrentThreatLevel' \in 0..4
      <4>1. CurrentThreatLevel' = LevelOf(threats')
        BY DEF CurrentThreatLevel, LevelOf, ActiveThreats, ActiveOf
      <4> QED BY <4>1, LevelIsHighest DEF IInv, TypeOK
    <3> HIDE DEF n, zones
    <3>4. last_analysis' # NoAnalysis /\ last_analysis'.tick = n
      BY <3>1, <3>2, <3>3, AdapterAssumption
    <3> QED BY <3>1, <3>4 DEF ReceiptIsOfLastTick
  <2>2. ASSUME NEW request \in ExplicitTicks \cup {AutoTick}, AnalyzeRejected(request)
        PROVE  ReceiptIsOfLastTick'
    BY <2>2 DEF AnalyzeRejected, ReceiptIsOfLastTick, vars
  <2>3. CASE Caller /\ UNCHANGED adapter_vars
    <3>1. tick_count' = tick_count
      BY <2>3 DEF Caller, RecordThreat, MarkResolved, SetMitigated, Advance
    <3> QED BY <2>3, <3>1 DEF adapter_vars, ReceiptIsOfLastTick
  <2>4. CASE UNCHANGED all_vars
    BY <2>4 DEF all_vars, vars, adapter_vars, ReceiptIsOfLastTick
  <2> QED BY <2>1, <2>2, <2>3, <2>4 DEF AdapterNext
<1> QED BY <1>1, <1>2, EngineInvariance, PTL DEF AdapterSpec
-----------------------------------------------------------------------------
(* Declared suspicion *)

\* Where external threats have ids of their own, a detection in the history is
\* of a tick that was analysed.
DetectionsAnalysed ==
    \A t \in threats : t.id \in TickNums \X Zones => t.id[1] \in used

LEMMA CallerKeepsDetections ==
    ASSUME IInv, ExternalIds \cap (TickNums \X Zones) = {},
           DetectionsAnalysed, Caller, UNCHANGED adapter_vars
    PROVE  DetectionsAnalysed'
<1>0. used' = used
  BY DEF adapter_vars
<1>1. ASSUME NEW id \in ExternalIds, NEW level \in Levels, NEW fields \in Handed,
             RecordThreat(id, level, fields)
      PROVE  DetectionsAnalysed'
  BY <1>0, <1>1, RecordThreatKeeps DEF DetectionsAnalysed
<1>2. ASSUME NEW id \in ThreatIds, NEW ref \in Refs, MarkResolved(id, ref)
      PROVE  DetectionsAnalysed'
  <2>1. PICK t \in threats : threats' = (threats \ {t}) \cup {Acknowledged(t, ref)}
    BY <1>2 DEF MarkResolved, Awaiting
  <2>2. Acknowledged(t, ref).id = t.id
    BY DEF Acknowledged, IInv, TypeOK, Threat
  <2> QED BY <1>0, <2>1, <2>2 DEF DetectionsAnalysed
<1>3. ASSUME NEW id \in ThreatIds, NEW value \in AliasWrites, SetMitigated(id, value)
      PROVE  DetectionsAnalysed'
  <2>1. PICK t \in threats : threats' = (threats \ {t}) \cup {[t EXCEPT !.resolved = value]}
    BY <1>3 DEF SetMitigated
  <2>2. [t EXCEPT !.resolved = value].id = t.id
    BY DEF IInv, TypeOK, Threat
  <2> QED BY <1>0, <2>1, <2>2 DEF DetectionsAnalysed
<1>4. CASE Advance
  BY <1>0, <1>4 DEF Advance, DetectionsAnalysed
<1> QED BY <1>1, <1>2, <1>3, <1>4 DEF Caller

LEMMA AdapterKeepsDetections ==
    ASSUME ExternalIds \cap (TickNums \X Zones) = {}
    PROVE  IInv /\ DetectionsAnalysed /\ [AdapterNext]_all_vars => DetectionsAnalysed'
<1> SUFFICES ASSUME IInv, DetectionsAnalysed, [AdapterNext]_all_vars
             PROVE  DetectionsAnalysed'
  OBVIOUS
<1>1. ASSUME NEW request \in ExplicitTicks \cup {AutoTick}, NEW patterns \in Batches,
             Analyze(request, patterns)
      PROVE  DetectionsAnalysed'
  <2> DEFINE n == EffectiveTick(request)
             zones == SuspiciousZones(patterns)
  <2>1. n \in TickNums /\ Tick(n, zones) /\ used' = used \cup {n}
    BY <1>1 DEF Analyze
  <2>2. zones \in SUBSET Zones
    BY AdapterAssumption DEF SuspiciousZones, Pattern
  <2> HIDE DEF n, zones
  <2>3. \A s \in threats' : \/ \E t \in threats : s = t \/ s = Flagged(t)
                            \/ s.id \in {n} \X zones
    BY <2>1, <2>2, TickKeeps
  <2>4. \A t \in threats : Flagged(t).id = t.id
    BY DEF Flagged, IInv, TypeOK, Threat
  <2>5. ASSUME NEW s \in threats', s.id \in TickNums \X Zones PROVE s.id[1] \in used'
    <3>1. CASE s.id \in {n} \X zones
      BY <2>1, <3>1
    <3>2. CASE \E t \in threats : s = t \/ s = Flagged(t)
      BY <2>1, <2>4, <2>5, <3>2 DEF DetectionsAnalysed
    <3> QED BY <2>3, <3>1, <3>2
  <2> QED BY <2>5 DEF DetectionsAnalysed
<1>2. ASSUME NEW request \in ExplicitTicks \cup {AutoTick}, AnalyzeRejected(request)
      PROVE  DetectionsAnalysed'
  BY <1>2 DEF AnalyzeRejected, vars, DetectionsAnalysed
<1>3. CASE Caller /\ UNCHANGED adapter_vars
  BY <1>3, CallerKeepsDetections
<1>4. CASE UNCHANGED all_vars
  BY <1>4 DEF all_vars, vars, adapter_vars, DetectionsAnalysed
<1> QED BY <1>1, <1>2, <1>3, <1>4 DEF AdapterNext

\* A threat the scan finds under an id the history does not know is active once
\* the tick is over, and flagged when its level calls for a response.
LEMMA DetectionBecomesActive ==
    ASSUME IInv, NEW n \in TickNums, NEW suspicious \in SUBSET Zones, NEW z \in suspicious,
           Tick(n, suspicious), \A t \in threats : t.id # <<n, z>>
    PROVE  \E t \in ActiveOf(threats') :
             /\ t.id = <<n, z>> /\ t.level = HIGH
             /\ AutoPropose /\ 25 * HIGH >= ThresholdPct => t.proposed
<1> DEFINE new == {NewThreat(<<n, y>>, HIGH, Fresh) : y \in suspicious}
           recorded == Recorded(threats, new)
           x == NewThreat(<<n, z>>, HIGH, Fresh)
           y == IF x \in Due(recorded) THEN Flagged(x) ELSE x
<1>1. threats' = Proposed(recorded) \ Expired(Proposed(recorded))
  BY DEF Tick
<1>2. x.id = <<n, z>> /\ x.level = HIGH /\ ~x.resolved /\ ~x.proposed
  BY DEF NewThreat, Fresh
<1>3. x \in recorded
  BY <1>2 DEF Recorded
<1>4. x \in Due(recorded) <=> AutoPropose /\ 25 * HIGH >= ThresholdPct
  BY <1>2, <1>3 DEF Due, ActiveOf
<1>5. y \in Proposed(recorded)
  BY <1>3 DEF Proposed, Flagged
<1>6. /\ y.id = <<n, z>> /\ y.level = HIGH /\ ~y.resolved
      /\ AutoPropose /\ 25 * HIGH >= ThresholdPct => y.proposed
  BY <1>2, <1>4 DEF Flagged, NewThreat
<1> HIDE DEF y
<1>7. y \in threats'
  BY <1>1, <1>5, <1>6 DEF Expired
<1> QED BY <1>6, <1>7 DEF ActiveOf

\* Where external threats have ids of their own, an analysis under a new number
\* leaves an active threat for every zone some node declared suspicious, and its
\* receipt shows the level.
THEOREM SuspicionIsActive ==
    ASSUME ExternalIds \cap (TickNums \X Zones) = {}
    PROVE  AdapterSpec => DeclaredSuspicionActive
<1> DEFINE A == \A n \in used' \ used : \A z \in last_analysis'.zones :
                  /\ last_analysis'.tick = n
                  /\ last_analysis'.level >= HIGH
                  /\ \E t \in ActiveThreats' :
                       t.id = <<n, z>> /\ (AutoPropose /\ 25 * HIGH >= ThresholdPct => t.proposed)
<1>1. AdapterInit => DetectionsAnalysed
  BY DEF AdapterInit, Init, DetectionsAnalysed
<1>2. IInv /\ IInv' /\ DetectionsAnalysed /\ [AdapterNext]_all_vars => [A]_all_vars
  <2> SUFFICES ASSUME IInv, IInv', DetectionsAnalysed, AdapterNext,
                      NEW m \in used' \ used, NEW z \in last_analysis'.zones
               PROVE  /\ last_analysis'.tick = m
                      /\ last_analysis'.level >= HIGH
                      /\ \E t \in ActiveThreats' :
                           /\ t.id = <<m, z>>
                           /\ AutoPropose /\ 25 * HIGH >= ThresholdPct => t.proposed
    OBVIOUS
  <2>1. PICK request \in ExplicitTicks \cup {AutoTick}, patterns \in Batches :
          Analyze(request, patterns)
    BY DEF AdapterNext, AnalyzeRejected, adapter_vars
  <2> DEFINE n == EffectiveTick(request)
             zones == SuspiciousZones(patterns)
  <2>2. /\ n \in TickNums /\ Tick(n, zones) /\ used' = used \cup {n}
        /\ last_analysis' = [tick |-> n, zones |-> zones, level |-> CurrentThreatLevel']
    BY <2>1 DEF Analyze, Receipt
  <2>3. zones \in SUBSET Zones
    BY AdapterAssumption DEF SuspiciousZones, Pattern
  <2> HIDE DEF n, zones
  <2>4. m = n /\ n \notin used /\ z \in zones
    BY <2>2
  <2>5. \A t \in threats : t.id # <<n, z>>
    <3>1. <<n, z>> \in TickNums \X Zones /\ <<n, z>>[1] = n
      BY <2>2, <2>3, <2>4
    <3> QED BY <2>4, <3>1 DEF DetectionsAnalysed
  <2>6. PICK t \in ActiveOf(threats') :
          /\ t.id = <<n, z>> /\ t.level = HIGH
          /\ AutoPropose /\ 25 * HIGH >= ThresholdPct => t.proposed
    BY <2>2, <2>3, <2>4, <2>5, DetectionBecomesActive
  <2>7. ActiveThreats' = ActiveOf(threats')
    BY DEF ActiveThreats, ActiveOf
  <2>8. CurrentThreatLevel' = LevelOf(threats')
    BY DEF CurrentThreatLevel, LevelOf, ActiveThreats, ActiveOf
  <2>9. LevelOf(threats') \in 0..4 /\ t.level <= LevelOf(threats')
    BY LevelIsHighest DEF IInv, TypeOK
  <2>10. last_analysis'.tick = n /\ last_analysis'.level = LevelOf(threats')
    BY <2>2, <2>8
  <2>11. LevelOf(threats') >= HIGH
    BY <2>6, <2>9 DEF HIGH
  <2>12. last_analysis'.tick = m /\ last_analysis'.level >= HIGH
    BY <2>4, <2>10, <2>11
  <2>13. \E s \in ActiveThreats' :
            /\ s.id = <<m, z>>
            /\ AutoPropose /\ 25 * HIGH >= ThresholdPct => s.proposed
    BY <2>4, <2>6, <2>7
  <2> QED BY <2>12, <2>13
<1> QED BY <1>1, <1>2, AdapterKeepsDetections, EngineInvariance, PTL
        DEF AdapterSpec, DeclaredSuspicionActive

-----------------------------------------------------------------------------
(* The ledger *)

\* A history in which every id keeps its standing, or becomes active from absent,
\* or absent from resolved.
LEMMA SweepSteps ==
    ASSUME \A id \in ThreatIds :
             \/ StandingOf(threats', id) = StandingOf(threats, id)
             \/ StandingOf(threats, id) = "absent" /\ StandingOf(threats', id) = "active"
             \/ StandingOf(threats, id) = "resolved" /\ StandingOf(threats', id) = "absent"
    PROVE  Ledger!Sweep
<1>1. [id \in ThreatIds |-> StandingOf(threats, id)]'
        = [id \in ThreatIds |-> StandingOf(threats', id)]
  BY DEF StandingOf
<1>2. \A id \in ThreatIds : StandingOf(threats', id) \in {"absent", "active", "resolved"}
  BY DEF StandingOf
<1> QED BY <1>1, <1>2 DEF Ledger!Sweep, Ledger!Standing

\* A tick is a sweep.
LEMMA TickSweeps ==
    ASSUME IInv, IInv', NEW n \in TickNums, NEW suspicious \in SUBSET Zones,
           Tick(n, suspicious)
    PROVE  Ledger!Sweep
<1>0. /\ \A s, t \in threats : s.id = t.id => s = t
      /\ \A s, t \in threats' : s.id = t.id => s = t
      /\ \A t \in threats : Flagged(t).id = t.id /\ Flagged(t).resolved = t.resolved
  BY DEF IInv, TypeOK, UniqueIds, Flagged, Threat
<1>1. /\ \A t \in threats : t.resolved \/ t \in threats' \/ Flagged(t) \in threats'
      /\ \A s \in threats' :
           \/ \E t \in threats : s = t \/ s = Flagged(t)
           \/ ~s.resolved /\ \A t \in threats : t.id # s.id
  BY TickKeeps
<1>2. ASSUME NEW id \in ThreatIds
      PROVE  \/ StandingOf(threats', id) = StandingOf(threats, id)
             \/ StandingOf(threats, id) = "absent" /\ StandingOf(threats', id) = "active"
             \/ StandingOf(threats, id) = "resolved" /\ StandingOf(threats', id) = "absent"
  <2>1. CASE \A t \in threats : t.id # id
    BY <1>0, <1>1, <2>1 DEF StandingOf
  <2>2. ASSUME NEW t \in threats, t.id = id, ~t.resolved
        PROVE  StandingOf(threats', id) = "active" /\ StandingOf(threats, id) = "active"
    BY <1>0, <1>1, <2>2 DEF StandingOf
  <2>3. ASSUME NEW t \in threats, t.id = id, t.resolved
        PROVE  StandingOf(threats, id) = "resolved" /\ StandingOf(threats', id) # "active"
    BY <1>0, <1>1, <2>3 DEF StandingOf
  <2>4. StandingOf(threats', id) \in {"absent", "active", "resolved"}
    BY DEF StandingOf
  <2> QED BY <2>1, <2>2, <2>3, <2>4
<1> QED BY <1>2, SweepSteps

\* Where no caller writes the mitigated alias, every step of the engine keeps the
\* ledger's promises: a threat once active stays active until its resolution is
\* acknowledged, and only a resolved one is forgotten.
LEMMA EngineStepsLedger ==
    ASSUME AliasWrites = {}
    PROVE  IInv /\ IInv' /\ [Next]_vars
             => [Ledger!Next]_([id \in ThreatIds |-> StandingOf(threats, id)])
<1> DEFINE standing == [id \in ThreatIds |-> StandingOf(threats, id)]
<1> SUFFICES ASSUME IInv, IInv', [Next]_vars
             PROVE  Ledger!Next \/ UNCHANGED standing
  OBVIOUS
<1>0. /\ \A s, t \in threats : s.id = t.id => s = t
      /\ \A s, t \in threats' : s.id = t.id => s = t
  BY DEF IInv, UniqueIds
<1>1. ASSUME NEW n \in TickNums, NEW suspicious \in SUBSET Zones, Tick(n, suspicious)
      PROVE  Ledger!Next
  BY <1>1, TickSweeps DEF Ledger!Next
<1>2. ASSUME NEW id \in ExternalIds, NEW level \in Levels, NEW fields \in Handed,
             RecordThreat(id, level, fields)
      PROVE  Ledger!Next
  <2>1. /\ threats \subseteq threats'
        /\ \A s \in threats' :
             s \in threats \/ (s.id = id /\ \A t \in threats : t.id # s.id)
    BY <1>2, RecordThreatKeeps
  <2>2. \A i \in ThreatIds \ {id} : StandingOf(threats', i) = StandingOf(threats, i)
    BY <1>0, <2>1 DEF StandingOf
  <2>3. \/ StandingOf(threats', id) = StandingOf(threats, id)
        \/ StandingOf(threats, id) = "absent" /\ StandingOf(threats', id) = "active"
        \/ StandingOf(threats, id) = "absent" /\ StandingOf(threats', id) = "resolved"
    BY <1>0, <2>1 DEF StandingOf
  <2>4. CASE StandingOf(threats, id) = "absent" /\ StandingOf(threats', id) = "resolved"
    <3>1. standing' = [i \in ThreatIds |-> StandingOf(threats', i)]
      BY DEF StandingOf
    <3>2. id \in ThreatIds
      BY DEF ThreatIds
    <3>3. standing' = [standing EXCEPT ![id] = "resolved"] /\ standing[id] = "absent"
      BY <2>2, <2>4, <3>1, <3>2
    <3>4. Ledger!File(id)
      BY <3>3 DEF Ledger!File
    <3> QED BY <3>2, <3>4 DEF Ledger!Next
  <2>5. CASE ~(StandingOf(threats, id) = "absent" /\ StandingOf(threats', id) = "resolved")
    BY <2>2, <2>3, <2>5, SweepSteps DEF Ledger!Next
  <2> QED BY <2>4, <2>5
<1>3. ASSUME NEW id \in ThreatIds, NEW ref \in Refs, MarkResolved(id, ref)
      PROVE  Ledger!Next
  <2>1. PICK t \in threats :
          /\ t.id = id /\ ~t.resolved
          /\ threats' = (threats \ {t}) \cup {Acknowledged(t, ref)}
    BY <1>3 DEF MarkResolved, Awaiting
  <2>2. Acknowledged(t, ref).id = id /\ Acknowledged(t, ref).resolved
    BY <2>1 DEF Acknowledged, IInv, TypeOK, Threat
  <2>3. StandingOf(threats, id) = "active" /\ StandingOf(threats', id) = "resolved"
    BY <1>0, <2>1, <2>2 DEF StandingOf
  <2>4. \A i \in ThreatIds \ {id} : StandingOf(threats', i) = StandingOf(threats, i)
    BY <1>0, <2>1, <2>2 DEF StandingOf
  <2>5. standing' = [i \in ThreatIds |-> StandingOf(threats', i)]
    BY DEF StandingOf
  <2>6. Ledger!Acknowledge(id)
    BY <2>3, <2>4, <2>5 DEF Ledger!Acknowledge
  <2> QED BY <2>6 DEF Ledger!Next
<1>4. ASSUME threats' = threats PROVE UNCHANGED standing
  BY <1>4 DEF StandingOf
<1> QED BY <1>1, <1>2, <1>3, <1>4 DEF Next, Caller, TickRejected, Advance, vars

\* Where no caller writes the mitigated alias, the engine under the adapter
\* implements the ledger.
THEOREM LedgerIsKept ==
    ASSUME AliasWrites = {}
    PROVE  AdapterSpec => LedgerSpec
<1>1. Init => Ledger!Init
  BY DEF Init, Ledger!Init, StandingOf
<1>2. IInv /\ IInv' /\ [Next]_vars
        => [Ledger!Next]_([id \in ThreatIds |-> StandingOf(threats, id)])
  BY EngineStepsLedger
<1> QED BY <1>1, <1>2, AdapterDrivesEngine, EngineInvariance, PTL
        DEF Spec, LedgerSpec, Ledger!Spec

\* Under the adapter, too, every receipt is counted once, every resolved threat
\* carries its receipt and only a receipt lowers the level.
THEOREM AdapterInherits ==
    ASSUME AliasWrites = {}
    PROVE  AdapterSpec => /\ []ResolvedHasReceipt
                          /\ []ResolutionAccounting
                          /\ LevelDropsOnlyByReceipt
<1>1. Spec => []ResolvedHasReceipt
  BY ResolutionsCarryReceipts
<1>2. Spec => []ResolutionAccounting
  BY ReceiptsCountOnce
<1>3. Spec => LevelDropsOnlyByReceipt
  BY OnlyReceiptsLower
<1> QED BY <1>1, <1>2, <1>3, AdapterDrivesEngine, PTL
=============================================================================
