\* Two sensors, readings of either sign, a spike and a reset at any point.
CONSTANTS
    Sensors = {s1, s2}
    Values <- MCValues
    NoBaseline = NoBaseline
    Decay = 4
    WarningSq = 2
    CriticalSq = 3
    DriftPct = 50
    DriftWindow = 1
    ReadyAt = 3
    TrendLength = 4
    MaxReadings = 7
SPECIFICATION Spec
INVARIANTS
    TypeOK
    SpikesAreBounded
    QuietStaysQuiet
    DriftDirectionTrue
