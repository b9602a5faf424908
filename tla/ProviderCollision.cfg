SPECIFICATION Spec
CONSTANTS
    p1 = p1
    p2 = p2
    n1 = n1
    n2 = n2
    k1 = k1
    Pods <- TwoPods
    Names <- TwoNames
    MapKeys <- OneKey
    NameOf <- TwoNameOf
    MapKey <- SameMapKey
    Plan <- NoPlan
    EnvPods = {}
    Deletable = {}
    MaxRestarts = 0
    MaxRaces = 0
    AllowReuse = FALSE
CHECK_DEADLOCK FALSE
INVARIANTS
    GetPodByName
