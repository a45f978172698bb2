SPECIFICATION FairSpec
\* The process ends: main = "exited" and nothing left to answer.
CHECK_DEADLOCK FALSE
CONSTANTS
    MessageCount = 2
    MaxForeign = 1
INVARIANTS
    TypeOK
    PermitsSuffice
    PauseRespected
    CompleteMeansVerified
PROPERTY SessionEnds
