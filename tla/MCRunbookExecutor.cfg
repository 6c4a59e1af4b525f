\* One execution of every runbook of at most three steps.
CONSTANTS
    Runbooks <- MCRunbooks
    MaxSteps = 3
    MaxExecutions = 1
\* The caller need not execute another runbook.
CHECK_DEADLOCK FALSE
SPECIFICATION Spec
INVARIANTS
    TypeOK
    ReversedInLifoOrder
    PhaseTellsTheWorld
    CountersMatchRecords
    AuditTellsEffects
PROPERTY ExecutionEnds
