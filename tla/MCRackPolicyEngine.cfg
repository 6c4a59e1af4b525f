\* Overrides of half a second; two grants may share their second, and their id.
CONSTANTS
    Zones <- MCZones
    Racks = {r1}
    Principals <- MCPrincipals
    RequestActions = {"read"}
    Instants <- MCInstants
    ZonePolicies <- MCZonePolicies
    NoPolicy = NoPolicy
    NoZone = NoZone
    OverrideEnabled = TRUE
    RequiredRole = "admin"
    Duration = 1
    PerSecond = 2
    MaxTime = 1
    MaxInside = 1
    MaxGrants = 2
    MaxDecisions = 2
SPECIFICATION Spec
INVARIANTS
    TypeOK
    OverrideAccessIsCovered
    LogsAgree
PROPERTIES
    CleanupIsInvisible
    RevocationStaysInZone
