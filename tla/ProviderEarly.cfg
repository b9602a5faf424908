SPECIFICATION Spec
CONSTANTS
    p1 = p1
    p2 = p2
    n1 = n1
    n2 = n2
    k1 = k1
    Pods <- TwoPods
    Names <- OneName
    MapKeys <- OneKey
    NameOf <- SameNameOf
    MapKey <- OneMapKey
    Plan <- SamePlan
    EnvPods = {}
    Deletable = {p1}
    MaxRestarts = 0
    MaxRaces = 0
    AllowReuse = TRUE
CHECK_DEADLOCK FALSE
INVARIANTS
    DelayFromCreation
