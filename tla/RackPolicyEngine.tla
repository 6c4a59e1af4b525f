-------------------------- MODULE RackPolicyEngine ---------------------------
(* Rack access decisions of access-control/rack_policy_engine.py: zone       *)
(* policies, racks, occupancy, emergency overrides and the two decision      *)
(* logs.  evaluate() decides and logs; it admits nobody.  Entering and       *)
(* leaving are calls of their own, and any of them may come in between.      *)
(*                                                                           *)
(* An instant a request is judged at is <<weekday, hour>>; the engine's      *)
(* clock, which only overrides and log entries read, is `now`.  evaluate()   *)
(* reads it twice, for the overrides and for the log, and it may move on in  *)
(* between.                                                                  *)
EXTENDS Integers, Sequences, SequencesExt, FiniteSets, Subsequences

CONSTANTS
    Zones,            \* zones of this site, a subset of the Zone enumeration
    Racks,
    Principals,       \* [role, mfa, clearance, session], as handed to a call
    RequestActions,   \* actions asked for, a subset of Actions
    Instants,         \* instants requests are judged at
    ZonePolicies,     \* policies handed to register_zone_policy
    NoPolicy, NoZone,
    OverrideEnabled,  \* override_policy.enabled
    RequiredRole,     \* override_policy.required_role
    Duration,         \* override_policy.max_duration_sec, in units of the clock
    PerSecond,        \* units of the clock in a second
    MaxTime,          \* bound: the clock stops here
    MaxInside,        \* bound: people counted in a zone
    MaxGrants,        \* bound: overrides granted
    MaxDecisions      \* bound: requests judged

Roles == {"readonly", "auditor", "operator", "admin"}
Actions == {"read", "write", "execute", "delete"}

\* ZONE_SENSITIVITY and ZONE_TO_RESOURCE.
Sensitivity == [compute_floor |-> 3, power_ring |-> 5, cooling_maze |-> 3, network_noc |-> 4,
                vault_bay |-> 5, staging_dock |-> 2, control_room |-> 4]
ResourceOf == [compute_floor |-> "gpu_node", power_ring |-> "power_grid",
               cooling_maze |-> "cooling_system", network_noc |-> "network_fabric",
               vault_bay |-> "key_vault", staging_dock |-> "emission_data",
               control_room |-> "audit_logs"]

\* POLICY_TABLE and MFA_REQUIRED_RESOURCES.
Permitted(role, resource) ==
    CASE role = "admin" -> Actions
      [] role = "operator" ->
           IF resource = "key_vault" THEN {}
           ELSE IF resource = "audit_logs" THEN {"read"}
           ELSE IF resource = "gpu_node" THEN {"read", "write", "execute"}
           ELSE {"read", "write"}
      [] role = "auditor" -> IF resource = "key_vault" THEN {} ELSE {"read"}
      [] role = "readonly" -> IF resource \in {"key_vault", "audit_logs"} THEN {} ELSE {"read"}
NeedsMfa == {"key_vault", "power_grid", "network_fabric"}

Window == [days : SUBSET (0..6), start : 0..24, end : 0..24]
Principal == [role : Roles, mfa : BOOLEAN, clearance : Int, session : BOOLEAN]
ZonePolicy == [zone : Zones, clearance : Int, window : Window, mfa : BOOLEAN,
               max : Int, occupants : Int]

NotRevoked == -1
Verdicts == {"unknown_rack", "no_policy", "role", "clearance", "window", "capacity", "mfa",
             "allowed", "override"}
Override == [id : Nat \X Zones, by : Principals, zone : Zones, granted : Nat,
             expires : Int, revoked : Nat \cup {NotRevoked}]
\* `checked` is history: what the clock showed when the request was judged.
Decision == [checked : Nat, ts : Nat, zone : DOMAIN Sensitivity, verdict : Verdicts]

ASSUME RackAssumption ==
    /\ Zones \subseteq DOMAIN Sensitivity
    /\ Principals \subseteq Principal
    /\ RequestActions \subseteq Actions
    /\ Instants \subseteq (0..6) \X (0..23)
    /\ ZonePolicies \subseteq ZonePolicy
    /\ NoZone \notin Zones /\ NoPolicy \notin ZonePolicy
    /\ OverrideEnabled \in BOOLEAN /\ RequiredRole \in Roles
    /\ Duration \in Int /\ PerSecond \in Nat \ {0}
    /\ MaxTime \in Nat /\ MaxInside \in Nat /\ MaxGrants \in Nat /\ MaxDecisions \in Nat

VARIABLES
    zone_policies,    \* _zone_policies
    rack_map,         \* _rack_map
    overrides,        \* _active_overrides: every override ever granted
    decision_log,     \* _decision_log
    rbac_log,         \* _rbac._decision_log: whether the role check passed
    now,              \* what _clock() returns
    brought           \* history: the occupants each zone's policy was registered with

vars == <<zone_policies, rack_map, overrides, decision_log, rbac_log, now, brought>>

Init ==
    /\ zone_policies = [z \in Zones |-> NoPolicy]
    /\ rack_map = [r \in Racks |-> NoZone]
    /\ overrides = <<>>
    /\ decision_log = <<>> /\ rbac_log = <<>>
    /\ now = 0
    /\ brought = [z \in Zones |-> 0]

-----------------------------------------------------------------------------
\* AccessWindow.is_within_window: a window that ends before it starts wraps
\* around midnight, and is judged by the day of the instant itself.
Within(window, instant) ==
    LET hour == instant[2]
    IN  /\ instant[1] \in window.days
        /\ IF window.start <= window.end
           THEN window.start <= hour /\ hour < window.end
           ELSE window.start <= hour \/ hour < window.end

\* RBACEngine.evaluate
RoleCheck(principal, resource, action) ==
    /\ principal.session
    /\ action \in Permitted(principal.role, resource)
    /\ resource \in NeedsMfa => principal.mfa

\* The overrides _try_emergency_override and get_active_overrides go by.
InForce_Inclusive(override) == override.revoked = NotRevoked /\ now <= override.expires
InForce(override) == override.revoked = NotRevoked /\ now < override.expires
Lapsed_ByGrant(override) == override.revoked = NotRevoked /\ now >= override.granted
Lapsed(override) == override.revoked = NotRevoked /\ now >= override.expires

Opened(zone) == \E i \in 1..Len(overrides) : overrides[i].zone = zone /\ InForce(overrides[i])

Full_OffByOne(policy) == policy.occupants > policy.max
Full(policy) == policy.occupants >= policy.max

\* What evaluate() makes of a request for a zone that has a policy: the reason
\* of its decision.  An override stands in for clearance or time, and passes by
\* the occupancy and MFA checks that come after them.
Verdict(principal, policy, action, instant) ==
    IF ~RoleCheck(principal, ResourceOf[policy.zone], action) THEN "role"
    ELSE IF principal.clearance < policy.clearance
    THEN IF Opened(policy.zone) THEN "override" ELSE "clearance"
    ELSE IF ~Within(policy.window, instant)
    THEN IF Opened(policy.zone) THEN "override" ELSE "window"
    ELSE IF Full(policy) THEN "capacity"
    ELSE IF policy.mfa /\ ~principal.mfa THEN "mfa"
    ELSE "allowed"

\* register_default_policies: weekdays, 6 to 22 hours.
DefaultPolicy(zone) ==
    [zone |-> zone, clearance |-> Sensitivity[zone],
     window |-> [days |-> 0..4, start |-> 6, end |-> 22],
     mfa |-> Sensitivity[zone] >= 4, max |-> 20, occupants |-> 0]

-----------------------------------------------------------------------------
\* A policy replaces the one of its zone, its occupancy count included: a new
\* one counts nobody, one that was in use before counts whom it counted then,
\* and nothing compares the count with the limit.
RegisterZonePolicy(policy) ==
    /\ zone_policies' = [zone_policies EXCEPT ![policy.zone] = policy]
    /\ brought' = [brought EXCEPT ![policy.zone] = policy.occupants]
    /\ UNCHANGED <<rack_map, overrides, decision_log, rbac_log, now>>

RegisterDefaultPolicies ==
    /\ zone_policies' = [z \in Zones |-> DefaultPolicy(z)]
    /\ brought' = [z \in Zones |-> 0]
    /\ UNCHANGED <<rack_map, overrides, decision_log, rbac_log, now>>

RegisterRack(rack, zone) ==
    /\ rack_map' = [rack_map EXCEPT ![rack] = zone]
    /\ UNCHANGED <<zone_policies, overrides, decision_log, rbac_log, now, brought>>

\* _log_decision(), when the clock shows ts; who asked for what is left out.
Logged(zone, verdict, ts) ==
    Append(decision_log, [checked |-> now, ts |-> ts, zone |-> zone, verdict |-> verdict])

\* RBACEngine._log(), on every way out of the role check.
RbacLogged_LiveSessions(principal, passed) ==
    IF principal.session THEN Append(rbac_log, passed) ELSE rbac_log
RbacLogged(principal, passed) == Append(rbac_log, passed)

\* evaluate() on a rack nobody registered, logged as one of compute_floor, or on
\* one in a zone without a policy.
EvaluateUnknown(rack) ==
    /\ Len(decision_log) < MaxDecisions
    /\ \/ /\ rack_map[rack] = NoZone
          /\ decision_log' = Logged("compute_floor", "unknown_rack", now)
       \/ /\ rack_map[rack] # NoZone /\ zone_policies[rack_map[rack]] = NoPolicy
          /\ decision_log' = Logged(rack_map[rack], "no_policy", now)
    /\ UNCHANGED <<zone_policies, rack_map, overrides, rbac_log, now, brought>>

\* evaluate() on a rack in a zone with a policy; the clock shows ts when the
\* decision is logged.
Evaluate(principal, rack, action, instant, ts) ==
    /\ Len(decision_log) < MaxDecisions
    /\ rack_map[rack] # NoZone /\ zone_policies[rack_map[rack]] # NoPolicy
    /\ LET policy == zone_policies[rack_map[rack]]
       IN  /\ decision_log' =
                Logged(policy.zone, Verdict(principal, policy, action, instant), ts)
           /\ rbac_log' = RbacLogged(principal,
                                     RoleCheck(principal, ResourceOf[policy.zone], action))
    /\ now' = ts
    /\ UNCHANGED <<zone_policies, rack_map, overrides, brought>>

\* The id of an override names the second of the grant and the zone, so two
\* grants for a zone within a second share theirs.
OverrideId_SecondOnly(zone) == <<now \div PerSecond>>
OverrideId(zone) == <<now \div PerSecond, zone>>

\* grant_emergency_override() with a justification; any other call is refused.
GrantOverride(principal, zone) ==
    /\ Len(overrides) < MaxGrants
    /\ OverrideEnabled /\ principal.role = RequiredRole /\ principal.mfa
    /\ overrides' = Append(overrides, [id |-> OverrideId(zone), by |-> principal, zone |-> zone,
                                       granted |-> now, expires |-> now + Duration,
                                       revoked |-> NotRevoked])
    /\ UNCHANGED <<zone_policies, rack_map, decision_log, rbac_log, now, brought>>

\* revoke_emergency_override(): the first unrevoked override of that id.
RevokeOverride(id) ==
    LET matches == {i \in 1..Len(overrides) :
                      overrides[i].id = id /\ overrides[i].revoked = NotRevoked}
    IN  /\ \E i \in matches :
             /\ \A j \in matches : i <= j
             /\ overrides' = [overrides EXCEPT ![i].revoked = now]
        /\ UNCHANGED <<zone_policies, rack_map, decision_log, rbac_log, now, brought>>

CleanupExpiredOverrides ==
    /\ overrides' = [i \in 1..Len(overrides) |->
                       IF Lapsed(overrides[i]) THEN [overrides[i] EXCEPT !.revoked = now]
                       ELSE overrides[i]]
    /\ UNCHANGED <<zone_policies, rack_map, decision_log, rbac_log, now, brought>>

EnterZone(zone) ==
    /\ zone_policies[zone] # NoPolicy
    /\ ~Full(zone_policies[zone])
    /\ zone_policies[zone].occupants < MaxInside
    /\ zone_policies' = [zone_policies EXCEPT ![zone].occupants = @ + 1]
    /\ UNCHANGED <<rack_map, overrides, decision_log, rbac_log, now, brought>>

ExitZone(zone) ==
    /\ zone_policies[zone] # NoPolicy
    /\ zone_policies[zone].occupants > 0
    /\ zone_policies' = [zone_policies EXCEPT ![zone].occupants = @ - 1]
    /\ UNCHANGED <<rack_map, overrides, decision_log, rbac_log, now, brought>>

Advance ==
    /\ now < MaxTime
    /\ now' = now + 1
    /\ UNCHANGED <<zone_policies, rack_map, overrides, decision_log, rbac_log, brought>>

Next ==
    \/ \E policy \in ZonePolicies : RegisterZonePolicy(policy)
    \/ RegisterDefaultPolicies
    \/ \E rack \in Racks, zone \in Zones : RegisterRack(rack, zone)
    \/ \E rack \in Racks : EvaluateUnknown(rack)
    \/ \E principal \in Principals, rack \in Racks, action \in RequestActions,
          instant \in Instants, ts \in now..MaxTime :
         Evaluate(principal, rack, action, instant, ts)
    \/ \E principal \in Principals, zone \in Zones : GrantOverride(principal, zone)
    \/ \E i \in 1..Len(overrides) : RevokeOverride(overrides[i].id)
    \/ CleanupExpiredOverrides
    \/ \E zone \in Zones : EnterZone(zone) \/ ExitZone(zone)
    \/ Advance

Spec == Init /\ [][Next]_vars

-----------------------------------------------------------------------------
(* Properties *)

\* Every field keeps its type, and no zone counts more people than its policy
\* lets in and than the policy counted when it was registered: entering never
\* passes the limit, whatever count a policy brings along (enter_zone).
TypeOK ==
    /\ DOMAIN zone_policies = Zones
    /\ \A z \in Zones :
         \/ zone_policies[z] = NoPolicy
         \/ /\ zone_policies[z] \in ZonePolicy
            /\ zone_policies[z].zone = z
            /\ \/ zone_policies[z].occupants <= zone_policies[z].max
               \/ zone_policies[z].occupants <= brought[z]
    /\ rack_map \in [Racks -> Zones \cup {NoZone}]
    /\ overrides \in Seq(Override)
    /\ decision_log \in Seq(Decision)
    /\ rbac_log \in Seq(BOOLEAN)
    /\ now \in Nat
    /\ brought \in [Zones -> Int]

\* The logs and the override records tell one story: an access by override was
\* given at an instant, no later than its log entry, when some override for that
\* zone had been granted by a principal of the required role with MFA, had not
\* expired and had not been revoked, as the records show it after whatever
\* revocations and clean-ups came later.  (The entry itself may bear the instant
\* of the expiry or a later one.)
OverrideAccessIsCovered ==
    \A i \in 1..Len(decision_log) :
        LET entry == decision_log[i]
        IN  entry.verdict = "override" =>
                \E j \in 1..Len(overrides) :
                    LET override == overrides[j]
                    IN  /\ override.zone = entry.zone
                        /\ override.by.role = RequiredRole /\ override.by.mfa
                        /\ override.granted <= entry.checked
                        /\ entry.checked < override.expires
                        /\ override.revoked # NotRevoked => entry.checked <= override.revoked
                        /\ entry.checked <= entry.ts

\* Cleaning up closes no zone and opens none: it revokes only what time has
\* ended already (cleanup_expired_overrides against _try_emergency_override).
CleanupIsInvisible ==
    [][CleanupExpiredOverrides => \A z \in Zones : Opened(z)' = Opened(z)]_vars

\* Revoking by the id of an override touches no other zone, also where ids
\* collide because grants fall into one second (override_id names the zone).
RevocationStaysInZone ==
    [][\A i \in 1..Len(overrides) : RevokeOverride(overrides[i].id) =>
         \A z \in Zones \ {overrides[i].zone} : Opened(z)' = Opened(z)]_vars

\* The two logs agree: the role checks logged are those of the requests that
\* came to one, in order, and a request fails for its role exactly when its
\* check failed.
CameToRoleCheck ==
    {entry \in Decision : entry.verdict \notin {"unknown_rack", "no_policy"}}
LogsAgree ==
    LET judged == Those(decision_log, CameToRoleCheck)
    IN  /\ Len(rbac_log) = Len(judged)
        /\ \A i \in 1..Len(judged) : rbac_log[i] <=> judged[i].verdict # "role"
=============================================================================
