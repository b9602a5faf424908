SPECIFICATION FairSpec
CONSTANTS
    p1 = p1
    p2 = p2
    Pods <- MCPods
    Specs <- MCSpecs
    SpecOf <- MCSpecOf
    FirstSpec = "first"
    AccountSecrets <- MCAccountSecrets
    Added <- MCAdded
    MaxEdits = 1
    MaxErrors = 1
    MaxFailures = 1
    MaxCrashes = 1
    MaxLags = 1
CHECK_DEADLOCK FALSE
INVARIANTS
    TypeOK
    FinalizerBeforePods
    PanicsOnlySuspended
PROPERTIES
    OneKubelet
    DeletionCompletes
    OrphansCollected
