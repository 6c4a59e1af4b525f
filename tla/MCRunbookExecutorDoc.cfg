\* What the class comment says of the steps completed before one fails, on runbooks
\* of at most two steps.
CONSTANTS
    Runbooks <- MCRunbooks
    MaxSteps = 2
    MaxExecutions = 1
CHECK_DEADLOCK FALSE
SPECIFICATION Spec
INVARIANT FailureReversesCompleted
