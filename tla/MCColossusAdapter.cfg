\* Ticks numbered by the adapter or by its callers; no alias writes.
CONSTANTS
    z1 = z1
    z2 = z2
    ext = ext
    r1 = r1
    Zones <- MCZones
    ExternalIds <- MCExternalIds
    Levels = {4}
    TickNums = {1, 2}
    Refs = {r1}
    NoRef = NoRef
    NoTime = NoTime
    Handed <- MCHanded
    AliasWrites = {}
    ThresholdPct = 70
    MaxActive = 2
    AutoPropose = TRUE
    Retention = 0
    MaxTime = 1
    MaxResolutions = 2
    MaxForgotten = 3
    ExplicitTicks = {1}
    Batches <- MCBatches
    AutoTick = AutoTick
    NoAnalysis = NoAnalysis
SPECIFICATION AdapterSpec
INVARIANTS
    ResolvedHasReceipt
    ResolutionAccounting
    ReceiptIsOfLastTick
PROPERTIES
    LevelDropsOnlyByReceipt
    DeclaredSuspicionActive
    LedgerSpec
