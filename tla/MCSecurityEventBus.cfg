\* Nested emissions, subscriptions and sinks changing under a dispatch.
CONSTANTS
    all = all
    onlyb = onlyb
    a = a
    b = b
    cat = cat
    Sinks = {k1, k2}
    Subs <- MCSubs
    Filter <- MCFilter
    Categories = {cat}
    Sources <- MCSources
    AnySource = AnySource
    Severities = {1}
    BufferSize = 1
    RequirePersistence = TRUE
    MaxEvents = 2
SPECIFICATION BusSpec
INVARIANTS
    BusInv
    DeliveredIsDurable
    DeliveredAtMostOnce
    WithdrawnSeesOnlyInFlight
    BufferIsRecent
    LogInOrder
PROPERTIES
    NobodySkipped
    EmissionsUnwind
