\* A caller assigns threat.mitigated = True.
CONSTANTS
    z1 = z1
    z2 = z2
    ext = ext
    r1 = r1
    Zones <- MCZones
    ExternalIds <- MCExternalIds
    Levels = {1, 4}
    TickNums = {1}
    Refs = {r1}
    NoRef = NoRef
    NoTime = NoTime
    Handed <- MCHanded
    AliasWrites = {TRUE}
    ThresholdPct = 70
    MaxActive = 2
    AutoPropose = TRUE
    Retention = 0
    MaxTime = 1
    MaxResolutions = 2
    MaxForgotten = 3
SPECIFICATION Spec
PROPERTY LevelDropsOnlyByReceipt
