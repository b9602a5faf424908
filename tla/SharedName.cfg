SPECIFICATION Spec
CONSTANTS
    p1 = p1
    Pods <- MCPods
    Specs <- MCSpecs
    SpecOf <- MCSpecOf
    FirstSpecA = "ofA"
    FirstSpecB = "ofB"
    VkLabels <- MCVkLabels
    AccountSecrets <- MCAccountSecrets
    Added <- MCAdded
    MaxErrors = 0
    MaxFailures = 1
    MaxLags = 0
    MaxCrashes = 1
    MaxExits = 1
    MaxEnds = 1
CHECK_DEADLOCK FALSE
INVARIANTS
    NodeStays
    NodeCleanedUp
    NodeAsAsked
