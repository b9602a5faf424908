SPECIFICATION FairSpec
CONSTANTS
    p1 = p1
    p2 = p2
    Pods <- MCPods
    Specs <- MCSpecs
    SpecOf <- MCSpecOf
    FirstSpec = "first"
    AccountSecrets <- MCAccountSecrets
    Added <- MCAdded
    MaxEdits = 1
    MaxErrors = 0
    MaxFailures = 0
    MaxCrashes = 0
    MaxLags = 1
CHECK_DEADLOCK FALSE
PROPERTY SuspendStops
