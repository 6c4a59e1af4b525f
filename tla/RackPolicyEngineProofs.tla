----------------------- MODULE RackPolicyEngineProofs -----------------------
(* Theorems about RackPolicyEngine, for every set of zones, racks, principals *)
(* and policies and for clocks, logs and overrides without bound.  That an    *)
(* access by override is covered rests on what the override records are: who  *)
(* may grant, and that no record is of the future.                            *)
EXTENDS RackPolicyEngine, SubsequenceTheorems

\* Overrides are granted by principals of the required role with MFA, and not in
\* the future; their ids name their zones.
OverridesAreSound ==
    \A i \in 1..Len(overrides) :
        /\ overrides[i].by.role = RequiredRole /\ overrides[i].by.mfa
        /\ overrides[i].granted <= now /\ overrides[i].revoked <= now
        /\ overrides[i].id[2] = overrides[i].zone

DecisionsAreOfThePast ==
    \A i \in 1..Len(decision_log) :
        decision_log[i].checked <= decision_log[i].ts /\ decision_log[i].ts <= now

IInv == TypeOK /\ OverridesAreSound /\ DecisionsAreOfThePast /\ OverrideAccessIsCovered

\* The records cover an access by override: the request was judged while one of
\* them was in force.
Covered(entry, records) ==
    \E j \in 1..Len(records) :
        /\ records[j].zone = entry.zone
        /\ records[j].by.role = RequiredRole /\ records[j].by.mfa
        /\ records[j].granted <= entry.checked /\ entry.checked < records[j].expires
        /\ records[j].revoked # NotRevoked => entry.checked <= records[j].revoked
        /\ entry.checked <= entry.ts

LEMMA CoveredForm ==
    OverrideAccessIsCovered <=>
        \A i \in 1..Len(decision_log) :
            decision_log[i].verdict = "override" => Covered(decision_log[i], overrides)
  BY DEF OverrideAccessIsCovered, Covered

-----------------------------------------------------------------------------
LEMMA InitIInv == Init => IInv
<1> SUFFICES ASSUME Init PROVE IInv
  OBVIOUS
<1>1. TypeOK
  <2>1. <<>> \in Seq(Override) /\ <<>> \in Seq(Decision) /\ <<>> \in Seq(BOOLEAN)
    BY EmptySeq
  <2> QED BY <2>1 DEF Init, TypeOK
<1>2. OverridesAreSound /\ DecisionsAreOfThePast /\ OverrideAccessIsCovered
  BY DEF Init, OverridesAreSound, DecisionsAreOfThePast, OverrideAccessIsCovered
<1> QED BY <1>1, <1>2 DEF IInv

\* What TypeOK says of the policy of a zone that brought so many along.
Fits(policy, zone, many) ==
    /\ policy \in ZonePolicy /\ policy.zone = zone
    /\ policy.occupants <= policy.max \/ policy.occupants <= many

\* Steps that touch policies, occupancy and racks alone.
LEMMA PolicyIInv ==
    ASSUME IInv, UNCHANGED <<overrides, decision_log, rbac_log, now>>,
           \/ \E policy \in ZonePolicies : RegisterZonePolicy(policy)
           \/ RegisterDefaultPolicies
           \/ \E rack \in Racks, zone \in Zones : RegisterRack(rack, zone)
           \/ \E zone \in Zones : EnterZone(zone) \/ ExitZone(zone)
    PROVE  IInv'
<1> USE DEF IInv, TypeOK
<1>1. OverridesAreSound' /\ DecisionsAreOfThePast' /\ OverrideAccessIsCovered'
  BY DEF OverridesAreSound, DecisionsAreOfThePast, OverrideAccessIsCovered
<1>2. ASSUME NEW policy \in ZonePolicies, RegisterZonePolicy(policy) PROVE TypeOK'
  <2>1. policy \in ZonePolicy /\ policy.zone \in Zones /\ policy.occupants \in Int
    BY RackAssumption DEF ZonePolicy
  <2>2. Fits(policy, policy.zone, policy.occupants)
    BY <2>1 DEF Fits
  <2>3. /\ DOMAIN zone_policies' = Zones
        /\ \A z \in Zones : zone_policies'[z] = IF z = policy.zone THEN policy
                                                ELSE zone_policies[z]
        /\ brought' \in [Zones -> Int]
        /\ \A z \in Zones : brought'[z] = IF z = policy.zone THEN policy.occupants
                                          ELSE brought[z]
        /\ rack_map' = rack_map
    BY <1>2, <2>1 DEF RegisterZonePolicy
  <2>4. \A z \in Zones : zone_policies'[z] = NoPolicy \/ Fits(zone_policies'[z], z, brought'[z])
    BY <2>2, <2>3 DEF Fits
  <2> QED BY <2>3, <2>4 DEF Fits
<1>3. ASSUME RegisterDefaultPolicies PROVE TypeOK'
  <2>1. \A z \in Zones : Fits(DefaultPolicy(z), z, 0)
    BY RackAssumption DEF DefaultPolicy, ZonePolicy, Window, Sensitivity, Fits
  <2>2. /\ DOMAIN zone_policies' = Zones
        /\ \A z \in Zones : zone_policies'[z] = DefaultPolicy(z) /\ brought'[z] = 0
        /\ brought' \in [Zones -> Int] /\ rack_map' = rack_map
    BY <1>3 DEF RegisterDefaultPolicies
  <2>3. \A z \in Zones : Fits(zone_policies'[z], z, brought'[z])
    BY <2>1, <2>2
  <2> QED BY <2>2, <2>3 DEF Fits
<1>4. ASSUME NEW rack \in Racks, NEW zone \in Zones, RegisterRack(rack, zone) PROVE TypeOK'
  BY <1>4 DEF RegisterRack
<1>5. ASSUME NEW zone \in Zones, NEW n \in Int, zone_policies[zone] # NoPolicy,
             n <= zone_policies[zone].max \/ n <= brought[zone],
             zone_policies' = [zone_policies EXCEPT ![zone].occupants = n],
             rack_map' = rack_map, brought' = brought
      PROVE  TypeOK'
  <2> DEFINE new == [zone_policies[zone] EXCEPT !.occupants = n]
  <2>1. zone_policies[zone] \in ZonePolicy /\ zone_policies[zone].zone = zone
    BY <1>5
  <2>2. new \in ZonePolicy /\ new.zone = zone /\ new.occupants = n
        /\ new.max = zone_policies[zone].max
    BY <2>1 DEF ZonePolicy
  <2>3. Fits(new, zone, brought[zone])
    BY <1>5, <2>2 DEF Fits
  <2>4. /\ DOMAIN zone_policies' = Zones
        /\ \A z \in Zones : zone_policies'[z] = IF z = zone THEN new ELSE zone_policies[z]
    BY <1>5
  <2> HIDE DEF new
  <2>5. \A z \in Zones : zone_policies'[z] = NoPolicy \/ Fits(zone_policies'[z], z, brought[z])
    BY <2>3, <2>4 DEF Fits
  <2> QED BY <1>5, <2>4, <2>5 DEF Fits
<1>6. ASSUME NEW zone \in Zones, EnterZone(zone) \/ ExitZone(zone) PROVE TypeOK'
  <2>1. /\ zone_policies[zone] # NoPolicy
        /\ zone_policies[zone].occupants \in Int /\ zone_policies[zone].max \in Int
        /\ brought[zone] \in Int
        /\ \/ zone_policies[zone].occupants <= zone_policies[zone].max
           \/ zone_policies[zone].occupants <= brought[zone]
    BY <1>6 DEF EnterZone, ExitZone, ZonePolicy
  <2>2. CASE EnterZone(zone)
    <3>1. /\ zone_policies[zone].occupants + 1 \in Int
          /\ zone_policies[zone].occupants + 1 <= zone_policies[zone].max
      BY <2>1, <2>2 DEF EnterZone, Full
    <3>2. /\ zone_policies' = [zone_policies EXCEPT
                               ![zone].occupants = zone_policies[zone].occupants + 1]
          /\ rack_map' = rack_map /\ brought' = brought
      BY <2>2 DEF EnterZone
    <3> QED BY <1>5, <2>1, <3>1, <3>2
  <2>3. CASE ExitZone(zone)
    <3>1. /\ zone_policies[zone].occupants - 1 \in Int
          /\ \/ zone_policies[zone].occupants - 1 <= zone_policies[zone].max
             \/ zone_policies[zone].occupants - 1 <= brought[zone]
      BY <2>1
    <3>2. /\ zone_policies' = [zone_policies EXCEPT
                               ![zone].occupants = zone_policies[zone].occupants - 1]
          /\ rack_map' = rack_map /\ brought' = brought
      BY <2>3 DEF ExitZone
    <3> QED BY <1>5, <2>1, <3>1, <3>2
  <2> QED BY <1>6, <2>2, <2>3
<1> QED BY <1>1, <1>2, <1>3, <1>4, <1>6

LEMMA OverrideTimes ==
    ASSUME TypeOK
    PROVE  \A i \in 1..Len(overrides) :
             /\ overrides[i] \in Override
             /\ overrides[i].granted \in Int /\ overrides[i].revoked \in Int
             /\ overrides[i].expires \in Int
<1>1. \A i \in 1..Len(overrides) : overrides[i] \in Override
  BY ElementOfSeq DEF TypeOK
<1> QED BY <1>1 DEF Override, NotRevoked

LEMMA DecisionTimes ==
    ASSUME TypeOK
    PROVE  \A i \in 1..Len(decision_log) :
             decision_log[i].ts \in Int /\ decision_log[i].checked \in Int
<1>1. \A i \in 1..Len(decision_log) : decision_log[i] \in Decision
  BY ElementOfSeq DEF TypeOK
<1> QED BY <1>1 DEF Decision

\* A decision is logged: an access by override finds one in force, which covers it.
LEMMA LoggedIInv ==
    ASSUME IInv, UNCHANGED <<zone_policies, rack_map, overrides, brought>>,
           NEW zone \in DOMAIN Sensitivity, NEW verdict \in Verdicts,
           NEW ts \in Nat, now <= ts, now' = ts,
           decision_log' = Logged(zone, verdict, ts), rbac_log' \in Seq(BOOLEAN),
           verdict = "override" => Opened(zone)
    PROVE  IInv'
<1> DEFINE entry == [checked |-> now, ts |-> ts, zone |-> zone, verdict |-> verdict]
<1>1. /\ entry \in Decision /\ entry.checked = now /\ entry.ts = ts
      /\ entry.zone = zone /\ entry.verdict = verdict
  BY DEF IInv, TypeOK, Decision
<1>2. decision_log' = Append(decision_log, entry)
  BY DEF Logged
<1> HIDE DEF entry
<1>3. decision_log \in Seq(Decision) /\ Len(decision_log) \in Nat
  BY LenProperties DEF IInv, TypeOK
<1>4. /\ decision_log' \in Seq(Decision)
      /\ \A i \in 1..Len(decision_log') :
           \/ i \in 1..Len(decision_log) /\ decision_log'[i] = decision_log[i]
           \/ decision_log'[i] = entry
  <2>1. /\ Append(decision_log, entry) \in Seq(Decision)
        /\ Len(Append(decision_log, entry)) = Len(decision_log) + 1
        /\ \A i \in 1..Len(decision_log) : Append(decision_log, entry)[i] = decision_log[i]
        /\ Append(decision_log, entry)[Len(decision_log) + 1] = entry
    BY <1>1, <1>3, AppendProperties
  <2> QED BY <1>2, <1>3, <2>1
<1>5. TypeOK'
  BY <1>4 DEF IInv, TypeOK
<1>6. OverridesAreSound'
  <2>1. overrides' = overrides /\ now \in Nat
    BY DEF IInv, TypeOK
  <2> QED BY <2>1, OverrideTimes DEF IInv, OverridesAreSound
<1>7. now \in Nat
  BY DEF IInv, TypeOK
<1>8. DecisionsAreOfThePast'
  <2> SUFFICES ASSUME NEW i \in 1..Len(decision_log')
               PROVE  decision_log'[i].checked <= decision_log'[i].ts /\ decision_log'[i].ts <= ts
    BY DEF DecisionsAreOfThePast
  <2>1. CASE i \in 1..Len(decision_log) /\ decision_log'[i] = decision_log[i]
    <3>1. decision_log[i].checked <= decision_log[i].ts /\ decision_log[i].ts <= now
      BY <2>1 DEF IInv, DecisionsAreOfThePast
    <3>2. decision_log[i].ts \in Int
      BY <2>1, DecisionTimes DEF IInv
    <3> QED BY <1>7, <2>1, <3>1, <3>2
  <2> QED BY <1>1, <1>4, <1>7, <2>1
<1>9. entry.verdict = "override" => Covered(entry, overrides)
  <2> SUFFICES ASSUME entry.verdict = "override" PROVE Covered(entry, overrides)
    OBVIOUS
  <2>1. PICK j \in 1..Len(overrides) : overrides[j].zone = zone /\ InForce(overrides[j])
    BY <1>1 DEF Opened
  <2>2. /\ overrides[j].by.role = RequiredRole /\ overrides[j].by.mfa
        /\ overrides[j].granted <= now
    BY DEF IInv, OverridesAreSound
  <2> QED BY <1>1, <2>1, <2>2 DEF Covered, InForce
<1>10. OverrideAccessIsCovered'
  <2> SUFFICES ASSUME NEW i \in 1..Len(decision_log'), decision_log'[i].verdict = "override"
               PROVE  Covered(decision_log'[i], overrides)
    BY DEF OverrideAccessIsCovered, Covered
  <2>1. CASE i \in 1..Len(decision_log) /\ decision_log'[i] = decision_log[i]
    BY <2>1, CoveredForm DEF IInv
  <2> QED BY <1>4, <1>9, <2>1
<1> QED BY <1>5, <1>6, <1>8, <1>10 DEF IInv

LEMMA EvaluateUnknownIInv == ASSUME IInv, NEW rack \in Racks, EvaluateUnknown(rack) PROVE IInv'
<1>1. rack_map[rack] \in Zones \cup {NoZone}
  BY DEF IInv, TypeOK
<1>2. "compute_floor" \in DOMAIN Sensitivity /\ Zones \subseteq DOMAIN Sensitivity
  BY RackAssumption DEF Sensitivity
<1>3. "unknown_rack" \in Verdicts /\ "no_policy" \in Verdicts
  BY DEF Verdicts
<1>4. rbac_log' \in Seq(BOOLEAN)
  BY DEF EvaluateUnknown, IInv, TypeOK
<1>5. now \in Nat /\ now <= now
  BY DEF IInv, TypeOK
<1>6. now' = now /\ UNCHANGED <<zone_policies, rack_map, overrides, brought>>
  BY DEF EvaluateUnknown
<1>7. CASE decision_log' = Logged("compute_floor", "unknown_rack", now)
  BY <1>2, <1>3, <1>4, <1>5, <1>6, <1>7, LoggedIInv
<1>8. CASE rack_map[rack] # NoZone /\ decision_log' = Logged(rack_map[rack], "no_policy", now)
  BY <1>1, <1>2, <1>3, <1>4, <1>5, <1>6, <1>8, LoggedIInv
<1> QED BY <1>7, <1>8 DEF EvaluateUnknown

LEMMA EvaluateIInv ==
    ASSUME IInv, NEW principal \in Principals, NEW rack \in Racks,
           NEW action \in RequestActions, NEW instant \in Instants, NEW ts \in now..MaxTime,
           Evaluate(principal, rack, action, instant, ts)
    PROVE  IInv'
<1> DEFINE policy == zone_policies[rack_map[rack]]
           verdict == Verdict(principal, policy, action, instant)
           passed == RoleCheck(principal, ResourceOf[policy.zone], action)
<1>1. policy \in ZonePolicy /\ policy.zone \in Zones
  BY DEF IInv, TypeOK, Evaluate, ZonePolicy
<1>2. policy.zone \in DOMAIN Sensitivity
  BY <1>1, RackAssumption
<1>3. verdict \in Verdicts /\ (verdict = "override" => Opened(policy.zone))
  BY DEF Verdict, Verdicts
<1>4. passed \in BOOLEAN
  BY RackAssumption DEF RoleCheck, Principal
<1>5. rbac_log' = Append(rbac_log, passed)
  BY DEF Evaluate, RbacLogged
<1> HIDE DEF passed
<1>6. rbac_log' \in Seq(BOOLEAN)
  BY <1>4, <1>5, AppendProperties DEF IInv, TypeOK
<1>7. /\ decision_log' = Logged(policy.zone, verdict, ts)
      /\ now' = ts /\ UNCHANGED <<zone_policies, rack_map, overrides, brought>>
  BY DEF Evaluate
<1>8. ts \in Nat /\ now <= ts
  BY RackAssumption DEF IInv, TypeOK
<1> HIDE DEF policy, verdict
<1> QED BY <1>2, <1>3, <1>6, <1>7, <1>8, LoggedIInv

\* Records that change in place, some of them revoked now.
LEMMA RevokedRecords ==
    ASSUME TypeOK, NEW gone, NEW records,
           records = [i \in 1..Len(overrides) |->
                        IF i \in gone THEN [overrides[i] EXCEPT !.revoked = now]
                        ELSE overrides[i]]
    PROVE  /\ records \in Seq(Override) /\ Len(records) = Len(overrides)
           /\ \A i \in 1..Len(overrides) :
                /\ records[i].zone = overrides[i].zone /\ records[i].by = overrides[i].by
                /\ records[i].granted = overrides[i].granted
                /\ records[i].expires = overrides[i].expires
                /\ records[i].id = overrides[i].id
                /\ records[i].revoked = (IF i \in gone THEN now ELSE overrides[i].revoked)
<1> DEFINE Kept(i) == IF i \in gone THEN [overrides[i] EXCEPT !.revoked = now] ELSE overrides[i]
<1>1. /\ overrides \in Seq(Override) /\ Len(overrides) \in Nat /\ now \in Nat
      /\ \A i \in 1..Len(overrides) : overrides[i] \in Override
  BY LenProperties, ElementOfSeq DEF TypeOK
<1>2. \A i \in 1..Len(overrides) :
        /\ Kept(i) \in Override
        /\ Kept(i).zone = overrides[i].zone /\ Kept(i).by = overrides[i].by
        /\ Kept(i).granted = overrides[i].granted /\ Kept(i).expires = overrides[i].expires
        /\ Kept(i).id = overrides[i].id
        /\ Kept(i).revoked = (IF i \in gone THEN now ELSE overrides[i].revoked)
  <2> TAKE i \in 1..Len(overrides)
  <2>1. overrides[i] \in Override
    BY <1>1
  <2>2. CASE i \in gone
    BY <1>1, <2>1, <2>2 DEF Override
  <2>3. CASE i \notin gone
    BY <2>1, <2>3
  <2> QED BY <2>2, <2>3
<1>3. records = [i \in 1..Len(overrides) |-> Kept(i)]
  OBVIOUS
<1> HIDE DEF Kept
<1>4. records \in Seq(Override) /\ Len(records) = Len(overrides)
  BY <1>1, <1>2, <1>3
<1>5. \A i \in 1..Len(overrides) : records[i] = Kept(i)
  BY <1>3
<1> QED BY <1>2, <1>4, <1>5

\* What the records covered before some of them were revoked they still cover.
LEMMA RevokedIInv ==
    ASSUME IInv, UNCHANGED <<zone_policies, rack_map, decision_log, rbac_log, now, brought>>,
           NEW gone,
           /\ overrides' \in Seq(Override) /\ Len(overrides') = Len(overrides)
           /\ \A i \in 1..Len(overrides) :
                /\ overrides'[i].zone = overrides[i].zone /\ overrides'[i].by = overrides[i].by
                /\ overrides'[i].granted = overrides[i].granted
                /\ overrides'[i].expires = overrides[i].expires
                /\ overrides'[i].id = overrides[i].id
                /\ overrides'[i].revoked = (IF i \in gone THEN now ELSE overrides[i].revoked),
           \A i \in 1..Len(overrides) : i \in gone => overrides[i].revoked = NotRevoked
    PROVE  IInv'
<1>1. now \in Nat
  BY DEF IInv, TypeOK
<1>2. TypeOK'
  BY DEF IInv, TypeOK
<1>3. OverridesAreSound'
  BY <1>1 DEF IInv, OverridesAreSound
<1>4. DecisionsAreOfThePast'
  BY DEF IInv, DecisionsAreOfThePast
<1>5. OverrideAccessIsCovered'
  <2> SUFFICES ASSUME NEW i \in 1..Len(decision_log), decision_log[i].verdict = "override"
               PROVE  Covered(decision_log[i], overrides')
    BY DEF OverrideAccessIsCovered, Covered
  <2> DEFINE ts == decision_log[i].checked
  <2>1. PICK j \in 1..Len(overrides) :
          /\ overrides[j].zone = decision_log[i].zone
          /\ overrides[j].by.role = RequiredRole /\ overrides[j].by.mfa
          /\ overrides[j].granted <= ts /\ ts < overrides[j].expires
          /\ overrides[j].revoked # NotRevoked => ts <= overrides[j].revoked
          /\ ts <= decision_log[i].ts
    BY CoveredForm DEF IInv, Covered
  <2>2. ts <= now
    BY <1>1, DecisionTimes DEF IInv, DecisionsAreOfThePast
  <2> QED BY <2>1, <2>2 DEF Covered
<1> QED BY <1>2, <1>3, <1>4, <1>5 DEF IInv

LEMMA CleanupIInv == ASSUME IInv, CleanupExpiredOverrides PROVE IInv'
<1> DEFINE gone == {i \in 1..Len(overrides) : Lapsed(overrides[i])}
<1>1. \A i \in 1..Len(overrides) : i \in gone => overrides[i].revoked = NotRevoked
  BY DEF Lapsed
<1>2. overrides' = [i \in 1..Len(overrides) |->
                      IF i \in gone THEN [overrides[i] EXCEPT !.revoked = now] ELSE overrides[i]]
  BY DEF CleanupExpiredOverrides
<1>3. UNCHANGED <<zone_policies, rack_map, decision_log, rbac_log, now, brought>>
  BY DEF CleanupExpiredOverrides
<1> HIDE DEF gone
<1>4. TypeOK
  BY DEF IInv
<1>5. /\ overrides' \in Seq(Override) /\ Len(overrides') = Len(overrides)
      /\ \A n \in 1..Len(overrides) :
           /\ overrides'[n].zone = overrides[n].zone /\ overrides'[n].by = overrides[n].by
           /\ overrides'[n].granted = overrides[n].granted
           /\ overrides'[n].expires = overrides[n].expires
           /\ overrides'[n].id = overrides[n].id
           /\ overrides'[n].revoked = (IF n \in gone THEN now ELSE overrides[n].revoked)
  BY <1>2, <1>4, RevokedRecords
<1> QED BY <1>1, <1>3, <1>5, RevokedIInv

\* The override a revocation takes is one that was not revoked.
LEMMA RevocationTakesOne ==
    ASSUME TypeOK, NEW id, RevokeOverride(id)
    PROVE  \E i \in 1..Len(overrides) :
             /\ overrides[i].id = id /\ overrides[i].revoked = NotRevoked
             /\ overrides' = [n \in 1..Len(overrides) |->
                                IF n \in {i} THEN [overrides[n] EXCEPT !.revoked = now]
                                ELSE overrides[n]]
             /\ UNCHANGED <<zone_policies, rack_map, decision_log, rbac_log, now, brought>>
<1>1. PICK i \in 1..Len(overrides) :
        /\ overrides[i].id = id /\ overrides[i].revoked = NotRevoked
        /\ overrides' = [overrides EXCEPT ![i].revoked = now]
  BY DEF RevokeOverride
<1>2. DOMAIN overrides = 1..Len(overrides) /\ overrides = [n \in 1..Len(overrides) |-> overrides[n]]
  BY LenProperties DEF TypeOK
<1>3. overrides' = [n \in 1..Len(overrides) |->
                      IF n \in {i} THEN [overrides[n] EXCEPT !.revoked = now] ELSE overrides[n]]
  BY <1>1, <1>2
<1> QED BY <1>1, <1>3 DEF RevokeOverride

LEMMA RevokeIInv == ASSUME IInv, NEW id, RevokeOverride(id) PROVE IInv'
<1>1. PICK i \in 1..Len(overrides) :
        /\ overrides[i].revoked = NotRevoked
        /\ overrides' = [n \in 1..Len(overrides) |->
                           IF n \in {i} THEN [overrides[n] EXCEPT !.revoked = now]
                           ELSE overrides[n]]
        /\ UNCHANGED <<zone_policies, rack_map, decision_log, rbac_log, now, brought>>
  BY RevocationTakesOne DEF IInv
<1> DEFINE gone == {i}
<1>2. /\ \A n \in 1..Len(overrides) : n \in gone => overrides[n].revoked = NotRevoked
      /\ overrides' = [n \in 1..Len(overrides) |->
                         IF n \in gone THEN [overrides[n] EXCEPT !.revoked = now]
                         ELSE overrides[n]]
  BY <1>1
<1>3. UNCHANGED <<zone_policies, rack_map, decision_log, rbac_log, now, brought>>
  BY <1>1
<1> HIDE DEF gone
<1>4. TypeOK
  BY DEF IInv
<1>5. /\ overrides' \in Seq(Override) /\ Len(overrides') = Len(overrides)
      /\ \A n \in 1..Len(overrides) :
           /\ overrides'[n].zone = overrides[n].zone /\ overrides'[n].by = overrides[n].by
           /\ overrides'[n].granted = overrides[n].granted
           /\ overrides'[n].expires = overrides[n].expires
           /\ overrides'[n].id = overrides[n].id
           /\ overrides'[n].revoked = (IF n \in gone THEN now ELSE overrides[n].revoked)
  BY <1>2, <1>4, RevokedRecords
<1> QED BY <1>2, <1>3, <1>5, RevokedIInv

LEMMA GrantIInv ==
    ASSUME IInv, NEW principal \in Principals, NEW zone \in Zones, GrantOverride(principal, zone)
    PROVE  IInv'
<1> DEFINE new == [id |-> OverrideId(zone), by |-> principal, zone |-> zone,
                   granted |-> now, expires |-> now + Duration, revoked |-> NotRevoked]
<1>1. /\ overrides \in Seq(Override) /\ Len(overrides) \in Nat /\ now \in Nat
  BY LenProperties DEF IInv, TypeOK
<1>2. new \in Override
  <2>1. now \div PerSecond \in Nat
    BY <1>1, RackAssumption
  <2> QED BY <1>1, <2>1, RackAssumption DEF Override, OverrideId
<1>3. /\ new.by = principal /\ new.granted = now /\ new.revoked = NotRevoked
      /\ new.id[2] = new.zone
  BY DEF OverrideId
<1>4. overrides' = Append(overrides, new)
      /\ UNCHANGED <<zone_policies, rack_map, decision_log, rbac_log, now, brought>>
  BY DEF GrantOverride
<1> HIDE DEF new
<1>5. /\ overrides' \in Seq(Override) /\ Len(overrides') = Len(overrides) + 1
      /\ \A i \in 1..Len(overrides) : overrides'[i] = overrides[i]
      /\ overrides'[Len(overrides) + 1] = new
  BY <1>1, <1>2, <1>4, AppendProperties
<1>6. TypeOK'
  BY <1>4, <1>5 DEF IInv, TypeOK
<1>7. OverridesAreSound'
  <2> SUFFICES ASSUME NEW i \in 1..Len(overrides')
               PROVE  /\ overrides'[i].by.role = RequiredRole /\ overrides'[i].by.mfa
                      /\ overrides'[i].granted <= now /\ overrides'[i].revoked <= now
                      /\ overrides'[i].id[2] = overrides'[i].zone
    BY <1>4 DEF OverridesAreSound
  <2>1. CASE i \in 1..Len(overrides)
    BY <1>5, <2>1 DEF IInv, OverridesAreSound
  <2>2. CASE i = Len(overrides) + 1
    BY <1>1, <1>3, <1>5, <2>2 DEF GrantOverride, NotRevoked
  <2> QED BY <1>1, <1>5, <2>1, <2>2
<1>8. DecisionsAreOfThePast'
  BY <1>4 DEF IInv, DecisionsAreOfThePast
<1>9. OverrideAccessIsCovered'
  <2> SUFFICES ASSUME NEW i \in 1..Len(decision_log), decision_log[i].verdict = "override"
               PROVE  Covered(decision_log[i], overrides')
    BY <1>4 DEF OverrideAccessIsCovered, Covered
  <2>1. Covered(decision_log[i], overrides)
    BY CoveredForm DEF IInv
  <2>2. \A j \in 1..Len(overrides) : j \in 1..Len(overrides') /\ overrides'[j] = overrides[j]
    BY <1>1, <1>5
  <2> QED BY <2>1, <2>2 DEF Covered
<1> QED BY <1>6, <1>7, <1>8, <1>9 DEF IInv

LEMMA AdvanceIInv == ASSUME IInv, Advance PROVE IInv'
<1>1. now \in Nat /\ now' = now + 1
  BY DEF IInv, TypeOK, Advance
<1>2. TypeOK'
  BY <1>1 DEF IInv, TypeOK, Advance
<1>3. OverridesAreSound'
  <2>1. \A i \in 1..Len(overrides) : overrides[i].granted \in Int /\ overrides[i].revoked \in Int
    BY OverrideTimes DEF IInv
  <2> QED BY <1>1, <2>1 DEF IInv, OverridesAreSound, Advance
<1>4. DecisionsAreOfThePast'
  <2>1. \A i \in 1..Len(decision_log) : decision_log[i].ts \in Int
    BY DecisionTimes DEF IInv
  <2> QED BY <1>1, <2>1 DEF IInv, DecisionsAreOfThePast, Advance
<1>5. OverrideAccessIsCovered'
  BY DEF IInv, OverrideAccessIsCovered, Advance
<1> QED BY <1>2, <1>3, <1>4, <1>5 DEF IInv

LEMMA NextIInv == IInv /\ [Next]_vars => IInv'
<1> SUFFICES ASSUME IInv, [Next]_vars PROVE IInv'
  OBVIOUS
<1>1. CASE \/ \E policy \in ZonePolicies : RegisterZonePolicy(policy)
           \/ RegisterDefaultPolicies
           \/ \E rack \in Racks, zone \in Zones : RegisterRack(rack, zone)
           \/ \E zone \in Zones : EnterZone(zone) \/ ExitZone(zone)
  <2>1. UNCHANGED <<overrides, decision_log, rbac_log, now>>
    BY <1>1 DEF RegisterZonePolicy, RegisterDefaultPolicies, RegisterRack, EnterZone, ExitZone
  <2> QED BY <1>1, <2>1, PolicyIInv
<1>2. CASE UNCHANGED vars
  BY <1>2 DEF vars, IInv, TypeOK, OverridesAreSound, DecisionsAreOfThePast,
              OverrideAccessIsCovered
<1> QED BY <1>1, <1>2, EvaluateUnknownIInv, EvaluateIInv, GrantIInv, RevokeIInv, CleanupIInv,
           AdvanceIInv DEF Next

-----------------------------------------------------------------------------
(* Theorems *)

LEMMA IInvHolds == Spec => []IInv
<1>1. Init => IInv
  BY InitIInv
<1>2. IInv /\ [Next]_vars => IInv'
  BY NextIInv
<1> QED BY <1>1, <1>2, PTL DEF Spec

\* Every field keeps its type, and no zone counts more people than its policy
\* lets in and than the policy brought along when it was registered: whatever
\* count that was, nobody enters past the limit (enter_zone).
THEOREM TypeCorrect == Spec => []TypeOK
<1>1. IInv => TypeOK
  BY DEF IInv
<1> QED BY <1>1, IInvHolds, PTL

\* Every access by override in the log is covered by an override record of a
\* principal of the required role with MFA, in force when the request was judged,
\* which was no later than the entry says (_try_emergency_override, _log_decision).
THEOREM OverridesAreCovered == Spec => []OverrideAccessIsCovered
<1>1. IInv => OverrideAccessIsCovered
  BY DEF IInv
<1> QED BY <1>1, IInvHolds, PTL

\* Clean-up revokes only overrides that stand in for nothing any more.
THEOREM CleanupChangesNoAccess == Spec => CleanupIsInvisible
<1>1. ASSUME IInv, CleanupExpiredOverrides, NEW z \in Zones PROVE Opened(z)' = Opened(z)
  <2>1. /\ Len(overrides) \in Nat /\ now \in Nat /\ now' = now
        /\ \A i \in 1..Len(overrides) : overrides[i] \in Override
    BY <1>1, LenProperties, ElementOfSeq DEF IInv, TypeOK, CleanupExpiredOverrides
  <2>2. /\ Len(overrides') = Len(overrides)
        /\ \A i \in 1..Len(overrides) :
             overrides'[i] = IF Lapsed(overrides[i]) THEN [overrides[i] EXCEPT !.revoked = now]
                             ELSE overrides[i]
    BY <1>1, <2>1 DEF CleanupExpiredOverrides
  <2>3. ASSUME NEW i \in 1..Len(overrides)
        PROVE  /\ overrides'[i].zone = overrides[i].zone
               /\ InForce(overrides[i])' <=> InForce(overrides[i])
    <3>1. overrides[i] \in Override
      BY <2>1
    <3>2. CASE Lapsed(overrides[i])
      <4>1. overrides'[i] = [overrides[i] EXCEPT !.revoked = now]
        BY <2>2, <3>2
      <4>2. overrides'[i].zone = overrides[i].zone /\ overrides'[i].revoked # NotRevoked
        BY <2>1, <3>1, <4>1 DEF Override, NotRevoked
      <4> QED BY <2>1, <3>1, <3>2, <4>2 DEF InForce, Lapsed, Override
    <3>3. CASE ~Lapsed(overrides[i])
      <4>1. overrides'[i] = overrides[i]
        BY <2>2, <3>3
      <4> QED BY <2>1, <4>1 DEF InForce
    <3> QED BY <3>2, <3>3
  <2> QED BY <2>2, <2>3 DEF Opened
<1>2. IInv /\ [Next]_vars
        => [CleanupExpiredOverrides => \A z \in Zones : Opened(z)' = Opened(z)]_vars
  BY <1>1
<1> QED BY <1>2, IInvHolds, PTL DEF Spec, CleanupIsInvisible

\* Revoking an override touches no other zone, also where ids collide.
THEOREM RevocationIsLocal == Spec => RevocationStaysInZone
<1>1. ASSUME IInv, NEW i \in 1..Len(overrides), RevokeOverride(overrides[i].id),
             NEW z \in Zones \ {overrides[i].zone}
      PROVE  Opened(z)' = Opened(z)
  <2>1. PICK j \in 1..Len(overrides) :
          /\ overrides[j].id = overrides[i].id
          /\ overrides' = [n \in 1..Len(overrides) |->
                             IF n \in {j} THEN [overrides[n] EXCEPT !.revoked = now]
                             ELSE overrides[n]]
          /\ now' = now
    BY <1>1, RevocationTakesOne DEF IInv
  <2>2. overrides[j].zone # z /\ overrides[j] \in Override
    BY <1>1, <2>1, ElementOfSeq DEF IInv, TypeOK, OverridesAreSound
  <2>3. Len(overrides') = Len(overrides)
    BY <2>1, <1>1, LenProperties DEF IInv, TypeOK
  <2>4. \A n \in 1..Len(overrides) :
          overrides'[n].zone = overrides[n].zone /\ (n # j => overrides'[n] = overrides[n])
    BY <2>1, <2>2 DEF Override
  <2> QED BY <2>1, <2>2, <2>3, <2>4 DEF Opened, InForce
<1>2. IInv /\ [Next]_vars
        => [\A i \in 1..Len(overrides) : RevokeOverride(overrides[i].id) =>
              \A z \in Zones \ {overrides[i].zone} : Opened(z)' = Opened(z)]_vars
  BY <1>1
<1> QED BY <1>2, IInvHolds, PTL DEF Spec, RevocationStaysInZone

-----------------------------------------------------------------------------
(* The two logs *)

\* A check and the request that came to it are logged by one call.
LEMMA BothLogged ==
    ASSUME TypeOK, LogsAgree, NEW entry \in CameToRoleCheck, NEW passed \in BOOLEAN,
           passed <=> entry.verdict # "role",
           decision_log' = Append(decision_log, entry), rbac_log' = Append(rbac_log, passed)
    PROVE  LogsAgree'
<1> DEFINE judged == Those(decision_log, CameToRoleCheck)
<1>1. /\ decision_log \in Seq(Decision) /\ rbac_log \in Seq(BOOLEAN) /\ entry \in Decision
      /\ Len(rbac_log) \in Nat
  BY LenProperties DEF TypeOK, CameToRoleCheck
<1>2. Those(decision_log', CameToRoleCheck) = Append(judged, entry)
  BY <1>1, ThoseOfAppend
<1>3. judged \in Seq(Decision) /\ Len(judged) = Len(rbac_log)
  BY <1>1, ThoseType DEF LogsAgree
<1>4. \A i \in 1..Len(judged) : rbac_log[i] <=> judged[i].verdict # "role"
  BY DEF LogsAgree
<1> HIDE DEF judged
<1>5. /\ Len(Append(judged, entry)) = Len(judged) + 1
      /\ Append(judged, entry)[Len(judged) + 1] = entry
      /\ \A i \in 1..Len(judged) : Append(judged, entry)[i] = judged[i]
  BY <1>1, <1>3, AppendProperties
<1>6. /\ Len(rbac_log') = Len(judged) + 1 /\ rbac_log'[Len(judged) + 1] = passed
      /\ \A i \in 1..Len(judged) : rbac_log'[i] = rbac_log[i]
  BY <1>1, <1>3, AppendProperties
<1>7. ASSUME NEW i \in 1..(Len(judged) + 1)
      PROVE  rbac_log'[i] <=> Append(judged, entry)[i].verdict # "role"
  <2>1. CASE i \in 1..Len(judged)
    <3>1. rbac_log'[i] = rbac_log[i] /\ Append(judged, entry)[i] = judged[i]
      BY <1>5, <1>6, <2>1
    <3>2. rbac_log[i] <=> judged[i].verdict # "role"
      BY <1>4, <2>1
    <3> QED BY <3>1, <3>2, Zenon
  <2>2. CASE i = Len(judged) + 1
    <3>1. rbac_log'[i] = passed /\ Append(judged, entry)[i] = entry
      BY <1>5, <1>6, <2>2
    <3> QED BY <3>1, Zenon
  <2>3. i \in 1..Len(judged) \/ i = Len(judged) + 1
    BY <1>1, <1>3
  <2> QED BY <2>1, <2>2, <2>3
<1>8. Len(rbac_log') = Len(Append(judged, entry))
  BY <1>5, <1>6
<1> QED BY <1>2, <1>5, <1>7, <1>8, Zenon DEF LogsAgree

LEMMA LogsAgreeStep == IInv /\ LogsAgree /\ [Next]_vars => LogsAgree'
<1> SUFFICES ASSUME IInv, LogsAgree, [Next]_vars PROVE LogsAgree'
  OBVIOUS
<1>1. ASSUME UNCHANGED <<decision_log, rbac_log>> PROVE LogsAgree'
  BY <1>1 DEF LogsAgree
<1>2. ASSUME NEW rack \in Racks, EvaluateUnknown(rack) PROVE LogsAgree'
  <2>1. PICK zone \in DOMAIN Sensitivity, verdict \in {"unknown_rack", "no_policy"} :
          decision_log' = Logged(zone, verdict, now)
    <3>1. rack_map[rack] \in Zones \cup {NoZone}
      BY <1>2 DEF IInv, TypeOK
    <3>2. Zones \subseteq DOMAIN Sensitivity /\ "compute_floor" \in DOMAIN Sensitivity
      BY RackAssumption DEF Sensitivity
    <3> QED BY <1>2, <3>1, <3>2 DEF EvaluateUnknown
  <2> DEFINE entry == [checked |-> now, ts |-> now, zone |-> zone, verdict |-> verdict]
  <2>2. /\ decision_log \in Seq(Decision) /\ entry \in Decision
        /\ entry \notin CameToRoleCheck
    BY DEF IInv, TypeOK, Decision, Verdicts, CameToRoleCheck
  <2>3. decision_log' = Append(decision_log, entry) /\ rbac_log' = rbac_log
    BY <1>2, <2>1 DEF Logged, EvaluateUnknown
  <2> HIDE DEF entry
  <2>4. Those(decision_log', CameToRoleCheck) = Those(decision_log, CameToRoleCheck)
    BY <2>2, <2>3, ThoseOfAppend
  <2> QED BY <2>3, <2>4 DEF LogsAgree
<1>3. ASSUME NEW principal \in Principals, NEW rack \in Racks, NEW action \in RequestActions,
             NEW instant \in Instants, NEW ts \in now..MaxTime,
             Evaluate(principal, rack, action, instant, ts)
      PROVE  LogsAgree'
  <2> DEFINE policy == zone_policies[rack_map[rack]]
             verdict == Verdict(principal, policy, action, instant)
             passed == RoleCheck(principal, ResourceOf[policy.zone], action)
             entry == [checked |-> now, ts |-> ts, zone |-> policy.zone, verdict |-> verdict]
  <2>1. policy.zone \in DOMAIN Sensitivity
    BY <1>3, RackAssumption DEF IInv, TypeOK, Evaluate, ZonePolicy
  <2>2. passed \in BOOLEAN /\ (passed <=> verdict # "role")
    BY RackAssumption DEF RoleCheck, Principal, Verdict
  <2>3. verdict \in Verdicts \ {"unknown_rack", "no_policy"}
    BY DEF Verdict, Verdicts
  <2>4. decision_log' = Append(decision_log, entry) /\ rbac_log' = Append(rbac_log, passed)
    BY <1>3 DEF Evaluate, Logged, RbacLogged
  <2> HIDE DEF verdict, passed
  <2>5. entry \in CameToRoleCheck /\ entry.verdict = verdict
    BY <2>1, <2>3, RackAssumption DEF IInv, TypeOK, Decision, CameToRoleCheck
  <2> HIDE DEF entry
  <2>6. passed <=> entry.verdict # "role"
    BY <2>2, <2>5
  <2> QED BY <2>2, <2>4, <2>5, <2>6, BothLogged DEF IInv
<1>4. CASE \/ \E policy \in ZonePolicies : RegisterZonePolicy(policy)
           \/ RegisterDefaultPolicies
           \/ \E rack \in Racks, zone \in Zones : RegisterRack(rack, zone)
           \/ \E principal \in Principals, zone \in Zones : GrantOverride(principal, zone)
           \/ \E i \in 1..Len(overrides) : RevokeOverride(overrides[i].id)
           \/ CleanupExpiredOverrides
           \/ \E zone \in Zones : EnterZone(zone) \/ ExitZone(zone)
           \/ Advance
  BY <1>1, <1>4 DEF RegisterZonePolicy, RegisterDefaultPolicies, RegisterRack, GrantOverride,
                    RevokeOverride, CleanupExpiredOverrides, EnterZone, ExitZone, Advance
<1>5. CASE UNCHANGED vars
  BY <1>1, <1>5 DEF vars
<1> QED BY <1>2, <1>3, <1>4, <1>5 DEF Next

\* The role checks logged are those of the requests that came to one, in order,
\* and a request failed for its role exactly when its check failed (evaluate and
\* RBACEngine.evaluate, which logs on every way out).
THEOREM LogsTellOneStory == Spec => []LogsAgree
<1>1. Init => LogsAgree
  <2> SUFFICES ASSUME Init PROVE LogsAgree
    OBVIOUS
  <2>1. decision_log = <<>> /\ decision_log \in Seq(Decision) /\ Len(rbac_log) = 0
        /\ Len(decision_log) = 0
    BY EmptySeq DEF Init
  <2>2. \A i \in 1..Len(decision_log) : decision_log[i] \in CameToRoleCheck
    BY <2>1
  <2>3. Those(decision_log, CameToRoleCheck) = <<>>
    BY <2>1, <2>2, ThoseOfAll
  <2> QED BY <2>1, <2>3 DEF LogsAgree
<1>2. IInv /\ LogsAgree /\ [Next]_vars => LogsAgree'
  BY LogsAgreeStep
<1> QED BY <1>1, <1>2, IInvHolds, PTL DEF Spec
=============================================================================
